---------------------------- MODULE Spec2Model ----------------------------
(***************************************************************************)
(* A model of the BUT_Telepresence streaming core:                         *)
(*   - the server supervisor of streaming_driver/main.cpp (command reader, *)
(*     the two sensor workers, the panoramic worker and the camera-select  *)
(*     listener, sharing the (desired_cfg, cfg_version) cell),             *)
(*   - the server timing probes of streaming_driver/include/logging.h,     *)
(*   - the NTP synchronizer of VR_App/src/ntp_timer.cpp.                   *)
(* Each part has its own specification; the variables of the other parts   *)
(* stay at their initial values.                                           *)
(***************************************************************************)
EXTENDS Integers, Sequences, FiniteSets, TLC

VARIABLES
    \* ---- streaming_driver/main.cpp: globals
    desired_cfg,          \* StreamingConfig desired_cfg
    cfg_version,          \* std::atomic<uint64_t> cfg_version
    stop_requested,       \* std::atomic<bool> stop_requested
    current_configs,      \* std::vector<StreamingConfig> current_configs
    pipelines,            \* std::vector<GstElement*> pipelines (0 = nullptr)
    pipelines_mutex,      \* std::mutex pipelines_mutex: "free" or the thread holding it
    selector_mutex,       \* std::mutex selector_mutex
    panoramic_selector,   \* GstElement *panoramic_selector (0 = nullptr)
    selector_pads,        \* std::vector<GstPad*> selector_pads: the pad indices it holds
    active_pad,           \* the "active-pad" property of the input-selector
    \* ---- threads of main.cpp
    ctrl_pc,              \* ControlLoop: "read" | "done"
    main_pc,              \* main and RunCameraStreaming: position
    aborted,              \* std::terminate was called (uncaught exception)
    sched,                \* the sensor workers the scheduler runs before the stop request
    \* locals of RunCameraStreamingPipelineDynamic(0), (1) and RunPanoramicPipeline (2)
    wpc,                  \* position
    seen_version,         \* seen_version
    read_cfg,             \* the config last copied from desired_cfg (cfg, new_cfg)
    consecutive_failures, \* consecutive_failures
    pipeline,             \* pipeline (0 = nullptr)
    gstState,             \* GStreamer state of the pipeline object
    encoder,              \* properties of its element named "encoder"
    rebuild,              \* rebuild
    error_during_streaming,
    current_version,      \* current_version (streaming loop)
    backoff,              \* the "failed N times, waiting M ms" of the sleep just made
    pano_cfg,             \* RunPanoramicPipeline's local cfg
    dynamic_update,       \* the pipeline has had a property set by UpdatePipelineProperties
    \* locals of CameraSelectListener
    sel_pc,               \* position
    current_camera,       \* current_camera
    pad_index,            \* pad_index of the datagram being handled
    key_frame_to,         \* the pipeline ForceKeyFrame was last called on (0 = none)
    \* ---- a call of CanUpdateDynamically(oldCfg, newCfg)
    hs_pc,                \* "call" | "returned"
    hs_oldCfg,            \* the argument oldCfg
    hs_newCfg,            \* the argument newCfg
    hs_result,            \* the value returned
    \* ---- streaming_driver/include/logging.h: PipelineState and timestampsStreaming
    \* of one pipeline
    frameId,              \* uint16_t frameId
    frameIdIncremented,   \* bool frameIdIncremented
    lastCameraFrameTime,  \* uint64_t lastCameraFrameTime
    cameraFrameDuration,  \* uint64_t cameraFrameDuration
    timestampsStreaming,  \* timestampsStreaming[pipelineName]
    now,                  \* the clock GetCurrentUs reads
    passed,               \* per frame: the times at which it passed the first three identities
    sent,                 \* per frame: its RTP packets at rtppay_ident: the time, whether
                          \* getAndIncrementFrameId was called for it, its extensions
    probe_faults,         \* failed buffer maps and failed extension adds so far
    \* ---- VR_App/src/ntp_timer.cpp: NtpTimer
    ntpServerAddress_,        \* std::string ntpServerAddress_
    fallbackServerAddress_,   \* std::string fallbackServerAddress_
    usingFallback_,           \* bool usingFallback_
    smoothedOffsetUs_,        \* int64_t smoothedOffsetUs_
    hasInitialOffset_,        \* bool hasInitialOffset_
    syncHealthy_,             \* std::atomic<bool> syncHealthy_
    consecutiveSyncFailures_, \* std::atomic<int> consecutiveSyncFailures_
    goodSamples,              \* SyncWithServer: goodSamples
    attempt,                  \* SyncWithServer: i of the sampling loop
    cycles,                   \* sync cycles completed
    failing_cycles,           \* consecutive cycles completed without an accepted sample
    \* ---- main.cpp: the lines ControlLoop has read
    read_lines,           \* the lines std::getline has returned so far, oldest first
    \* ---- VR_App: one CameraStats record and the probes that fill it
    stats,                \* the atomic members of CameraStats
    history_,             \* std::deque<CameraStatsSnapshot> history_
    st_pc,                \* the probe the frame in flight reaches next
    st_now,               \* what ntpTimer->GetCurrentTimeUs() returns
    st_frames,            \* frames that have passed queue_ident
    \* ---- VR_App: the telemetry listener (ros_network_gateway_client)
    registry_,            \* SchemaRegistry::registry_, per message type
    parsed,               \* the ParsedMessage built last, with the payload it was built from
    got,                  \* the result of the last ParsedMessage::get call
    ros_last,             \* the datagram handled last and what registerIfSchema returned for it
    ros_pc,               \* the listener thread: listening, or aborted
    \* ---- VR_App: the client's streaming config, REST client and receive pipelines (program.cpp, rest_client.cpp, gstreamer_player.cpp)
    cli_steps,            \* steps the client has taken in this run
    streamingConfig,      \* appState_->streamingConfig; RestClient::config_ is a reference to it
    cameraServer,         \* appState_->connectionState.cameraServer
    cli_pc,               \* the client program: created, running, destroyed, or crashed
    rest_log,             \* the last three REST calls: operation, whether the server streamed, response, return value
    rest_srv,             \* the REST front-end: whether its stream runs, the config parsed from the last body it accepted
    accepted,             \* the config carried by the last request answered with 200 (at first: the one the RestClient was made with)
    camPair,              \* per eye: frameWidth, frameHeight, memorySize, the size of the buffer behind dataHandle, the bytes copied into it last
    player,               \* GstreamerPlayer: pipelineLeft_, pipelineRight_ and the config they were built for
    \* ---- frames in flight in one receive pipeline (gstreamer_player.cpp)
    fl_sent,              \* frames that have passed the udpsrc probe
    fl_queue,             \* ids of the frames held by the queue element ahead of queue_ident
    fl_frame,             \* what each frame's own stage values are, by frame id
    \* ---- VR_App: the GLib main loop of the player (gstreamer_player.cpp)
    mainLoop_,            \* the GMainLoop the task created last (0 = nullptr)
    is_running,           \* the is_running flag of that GMainLoop
    mainLoopFuture_,      \* invalid, pending or ready
    task_pc,              \* where the detached thread-pool task is
    cp_pc,                \* where the call of configurePipelines is
    cp_config,            \* the config of that call
    pipelineLeft_,        \* none or a state of the left pipeline
    pipelineRight_,       \* none or a state of the right pipeline
    cp_calls,             \* calls of configurePipelines so far
    dispatched,           \* bus callbacks the running loop has dispatched
    \* ---- bookkeeping of the model
    faults,               \* hardware failures injected so far
    loaded_names,         \* the config that the version in current_version names
    seen_names            \* the config that the version in seen_version names

cellVars == <<desired_cfg, cfg_version>>
lockVars == <<pipelines_mutex, selector_mutex>>
workerVars == <<wpc, seen_version, read_cfg, consecutive_failures, pipeline, gstState,
                encoder, rebuild, error_during_streaming, current_version, backoff,
                current_configs, pano_cfg, dynamic_update, loaded_names, seen_names>>
selectorVars == <<panoramic_selector, selector_pads, active_pad>>
listenerVars == <<sel_pc, current_camera, pad_index, key_frame_to>>
srvVars == <<cellVars, lockVars, workerVars, selectorVars, listenerVars, stop_requested,
             pipelines, ctrl_pc, main_pc, aborted, sched, faults>>

hsVars == <<hs_pc, hs_oldCfg, hs_newCfg, hs_result>>
logVars == <<frameId, frameIdIncremented, lastCameraFrameTime, cameraFrameDuration,
             timestampsStreaming, now, passed, sent, probe_faults>>
ntpVars == <<ntpServerAddress_, fallbackServerAddress_, usingFallback_, smoothedOffsetUs_,
             hasInitialOffset_, syncHealthy_, consecutiveSyncFailures_, goodSamples,
             attempt, cycles, failing_cycles>>
ctlVars == <<read_lines>>
statsVars == <<stats, history_, st_pc, st_now, st_frames>>
rosVars == <<registry_, parsed, got, ros_last, ros_pc>>
cliVars == <<streamingConfig, cameraServer, cli_pc, rest_log, rest_srv, accepted, camPair, player,
            cli_steps>>
flowVars == <<fl_sent, fl_queue, fl_frame>>
loopVars == <<mainLoop_, is_running, mainLoopFuture_, task_pc, cp_pc, cp_config, pipelineLeft_, pipelineRight_, cp_calls, dispatched>>
\* what the supervisor does not touch
nonSrvVars == <<hsVars, logVars, ntpVars, ctlVars, statsVars, rosVars, cliVars, flowVars, loopVars>>
\* what a call of CanUpdateDynamically does not touch
nonHsVars == <<srvVars, logVars, ntpVars, ctlVars, statsVars, rosVars, cliVars, flowVars, loopVars>>
\* what the probes do not touch
nonLogVars == <<srvVars, hsVars, ntpVars, ctlVars, statsVars, rosVars, cliVars, flowVars, loopVars>>
\* what the synchronizer does not touch
nonNtpVars == <<srvVars, hsVars, logVars, ctlVars, statsVars, rosVars, cliVars, flowVars, loopVars>>
\* what the command reader, run alone, does not touch outside the supervisor
nonCtlVars == <<hsVars, logVars, ntpVars, statsVars, rosVars, cliVars, flowVars, loopVars>>
\* what the client's probes do not touch
nonStatsVars == <<srvVars, hsVars, logVars, ntpVars, ctlVars, rosVars, cliVars, flowVars, loopVars>>
\* what the telemetry listener does not touch
nonRosVars == <<srvVars, hsVars, logVars, ntpVars, ctlVars, statsVars, cliVars, flowVars, loopVars>>
\* what the client's streaming control does not touch
nonCliVars == <<srvVars, hsVars, logVars, ntpVars, ctlVars, statsVars, rosVars, flowVars, loopVars>>
\* what the probes of a pipeline with frames in flight do not touch besides statsVars
nonFlowVars == <<srvVars, hsVars, logVars, ntpVars, ctlVars, statsVars, rosVars, cliVars, loopVars>>
\* what the main loop and configurePipelines' handling of it do not touch
nonLoopVars == <<srvVars, hsVars, logVars, ntpVars, ctlVars, statsVars, rosVars, cliVars, flowVars>>

vars == <<srvVars, hsVars, logVars, ntpVars, ctlVars, statsVars, rosVars, cliVars, flowVars, loopVars>>

----------------------------------------------------------------------------
(* Bounds of the model *)

\* update commands accepted in one run
MaxVersion == 3
\* lines the command reader, run alone, is given
MaxLines == 3
\* frames the client receives, and how many of the first ones vary in their timing
MaxClientFrames == 52
MaxVaried == 2
MaxResolutionSteps == 1
\* steps of the client (settings edits, REST calls, frames, restarts) in one run
MaxClientSteps == 5
\* frames one receive pipeline is followed for, and how many its queue element holds
MaxFlowFrames == 3
MaxQueued == 2
\* calls of configurePipelines in one run, and bus callbacks one main loop dispatches
MaxReconfigurations == 3
MaxDispatched == 2
\* failed Playing transitions, failed parses and Error/EOS messages in one run
MaxFaults == 2
\* frames that enter a pipeline, and RTP packets the payloader makes of one frame
MaxFrames == 2
MaxPackets == 3
\* microseconds between two probe callbacks
MaxDt == 2
\* failed buffer maps and failed extension adds in one run
MaxProbeFaults == 1
\* sync cycles in one run
MaxCycles == 5

----------------------------------------------------------------------------
(* streaming_driver/include/pipelines.h: StreamingConfig *)

Codec == {"JPEG", "VP8", "VP9", "H264", "H265"}
VideoMode == {"STEREO", "MONO", "PANORAMIC"}

\* StreamingConfig desired_cfg = {}: every member value-initialised.
ZeroConfig ==
    [ip |-> "", portLeft |-> 0, portRight |-> 0, codec |-> "JPEG",
     encodingQuality |-> 0, bitrate |-> 0, horizontalResolution |-> 0,
     verticalResolution |-> 0, videoMode |-> "STEREO", fps |-> 0]

DEFAULT_STREAMING_CONFIG ==
    [ip |-> "192.168.1.100", portLeft |-> 8554, portRight |-> 8556, codec |-> "JPEG",
     encodingQuality |-> 85, bitrate |-> 400000, horizontalResolution |-> 1920,
     verticalResolution |-> 1080, videoMode |-> "STEREO", fps |-> 60]

\* The configs the update commands of a run carry: the default, a change of the
\* JPEG quality only, Mono, the reserved codec VP8, and three Panoramic ones (H264,
\* a change of its bitrate only, VP8).
CfgQuality == [DEFAULT_STREAMING_CONFIG EXCEPT !.encodingQuality = 60]
CfgMono == [DEFAULT_STREAMING_CONFIG EXCEPT !.videoMode = "MONO"]
CfgVP8 == [DEFAULT_STREAMING_CONFIG EXCEPT !.codec = "VP8"]
CfgPano == [DEFAULT_STREAMING_CONFIG EXCEPT !.videoMode = "PANORAMIC", !.codec = "H264"]
CfgPanoBitrate == [CfgPano EXCEPT !.bitrate = 800000]
CfgPanoVP8 == [CfgPano EXCEPT !.codec = "VP8"]
\* one whose ports are equal, whose frame rate is 0 and whose resolution is in no
\* table
CfgSamePorts == [DEFAULT_STREAMING_CONFIG EXCEPT !.portRight = 8554, !.fps = 0,
                                                 !.horizontalResolution = 1000]

UpdateConfigs == {DEFAULT_STREAMING_CONFIG, CfgQuality, CfgMono, CfgVP8,
                  CfgPano, CfgPanoBitrate, CfgPanoVP8, CfgSamePorts}

----------------------------------------------------------------------------
(* main.cpp: the command channel *)

CodecLabels == Codec \cup {"AV1"}
ModeLabels == {"stereo", "mono", "panoramic", "STEREO"}

\* GetCodecFromString with a default for unknown labels.
GetCodecFromStringOrJpeg(codecString) ==
    IF codecString \in Codec THEN codecString ELSE "JPEG"

\* GetCodecFromString: the enum value, or "throw" (std::invalid_argument).
GetCodecFromString(codecString) ==
    IF codecString \in {"JPEG", "VP8", "VP9", "H264", "H265"} THEN codecString ELSE "throw"

\* GetVideoModeFromString: the enum value, or "throw".
GetVideoModeFromString(videoModeString) ==
    CASE videoModeString = "stereo" -> "STEREO"
      [] videoModeString = "mono" -> "MONO"
      [] videoModeString = "panoramic" -> "PANORAMIC"
      [] OTHER -> "throw"

\* The "config" object of an update command, as the REST front-end writes it.
ModeLabelOf(mode) ==
    CASE mode = "STEREO" -> "stereo" [] mode = "MONO" -> "mono" [] OTHER -> "panoramic"

JsonOf(c) == [c EXCEPT !.videoMode = ModeLabelOf(c.videoMode)]

ConfigKeys == {"ip", "portLeft", "portRight", "codec", "encodingQuality", "bitrate",
               "horizontalResolution", "verticalResolution", "videoMode", "fps"}

\* ConfigFromJson: c.at(key) throws on a missing key, the two label parsers on an
\* unknown label (ok = FALSE); otherwise the StreamingConfig.
ConfigFromJson(c) ==
    IF ConfigKeys \ DOMAIN c # {} THEN [ok |-> FALSE, out |-> ZeroConfig]
    ELSE IF GetCodecFromString(c.codec) = "throw" THEN [ok |-> FALSE, out |-> ZeroConfig]
    ELSE IF GetVideoModeFromString(c.videoMode) = "throw"
    THEN [ok |-> FALSE, out |-> ZeroConfig]
    ELSE [ok |-> TRUE,
          out |-> [ip |-> c.ip, portLeft |-> c.portLeft, portRight |-> c.portRight,
                   codec |-> GetCodecFromString(c.codec),
                   encodingQuality |-> c.encodingQuality, bitrate |-> c.bitrate,
                   horizontalResolution |-> c.horizontalResolution,
                   verticalResolution |-> c.verticalResolution,
                   videoMode |-> GetVideoModeFromString(c.videoMode), fps |-> c.fps]]

\* The lines the command reader is given.
BadCodecJson == [JsonOf(DEFAULT_STREAMING_CONFIG) EXCEPT !.codec = "AV1"]
BadModeJson == [JsonOf(DEFAULT_STREAMING_CONFIG) EXCEPT !.videoMode = "STEREO"]
NoFpsJson == [k \in ConfigKeys \ {"fps"} |-> JsonOf(DEFAULT_STREAMING_CONFIG)[k]]

Lines ==
    {[kind |-> "empty"], [kind |-> "garbage"], [kind |-> "other"], [kind |-> "stop"]}
    \cup {[kind |-> "update", config |-> j] :
             j \in {JsonOf(c) : c \in UpdateConfigs}
                   \cup {BadCodecJson, BadModeJson, NoFpsJson}}

\* The version left as it was by an update.
FetchAddNone(version) == version

\* cfg_version.fetch_add(1, std::memory_order_relaxed): the new value.
FetchAddOne(version) == version + 1

\* ControlLoop, one line read by std::getline. The update of desired_cfg and
\* cfg_version happens under cfg_mutex, which no thread holds across a step here.
ControlLoopBody(line) ==
    /\ ~aborted
    /\ ctrl_pc = "read"
    /\ IF line.kind = "update" /\ ConfigFromJson(line.config).ok
       THEN /\ cfg_version < MaxVersion
            /\ desired_cfg' = ConfigFromJson(line.config).out
            /\ cfg_version' = FetchAddOne(cfg_version)
            /\ UNCHANGED <<stop_requested, ctrl_pc>>
       ELSE IF line.kind = "stop"
       THEN /\ stop_requested' = TRUE
            /\ ctrl_pc' = "done"
            /\ UNCHANGED cellVars
       ELSE \* empty line, bad JSON, unknown cmd, or ConfigFromJson threw: next line
            UNCHANGED <<cellVars, stop_requested, ctrl_pc>>
    /\ UNCHANGED <<lockVars, workerVars, selectorVars, listenerVars, pipelines, main_pc,
                   aborted, sched, faults>>

ControlLine(line) == ControlLoopBody(line) /\ UNCHANGED nonSrvVars

\* ControlLoop, std::getline fails (end of standard input): the loop ends.
ControlEof ==
    /\ ~aborted
    /\ ctrl_pc = "read"
    /\ stop_requested' = TRUE
    /\ ctrl_pc' = "done"
    /\ UNCHANGED <<cellVars, lockVars, workerVars, selectorVars, listenerVars, pipelines,
                   main_pc, aborted, sched, faults>>
    /\ UNCHANGED nonSrvVars

----------------------------------------------------------------------------
(* main.cpp: hot-swap rules *)

\* A CanUpdateDynamically that does not look at the right port.
CanUpdateDynamicallyLeftPortOnly(oldCfg, newCfg) ==
    /\ oldCfg.horizontalResolution = newCfg.horizontalResolution
    /\ oldCfg.verticalResolution = newCfg.verticalResolution
    /\ oldCfg.fps = newCfg.fps
    /\ oldCfg.codec = newCfg.codec
    /\ oldCfg.videoMode = newCfg.videoMode
    /\ oldCfg.ip = newCfg.ip
    /\ oldCfg.portLeft = newCfg.portLeft

\* CanUpdateDynamically: no structural change between oldCfg and newCfg.
CanUpdateDynamically(oldCfg, newCfg) ==
    LET structuralChange ==
            \/ oldCfg.horizontalResolution # newCfg.horizontalResolution
            \/ oldCfg.verticalResolution # newCfg.verticalResolution
            \/ oldCfg.fps # newCfg.fps
            \/ oldCfg.codec # newCfg.codec
            \/ oldCfg.videoMode # newCfg.videoMode
            \/ oldCfg.ip # newCfg.ip
            \/ oldCfg.portLeft # newCfg.portLeft
            \/ oldCfg.portRight # newCfg.portRight
    IN ~structuralChange

\* The encoder element a pipeline string creates: nvjpegenc quality=..., or
\* nvv4l2h26Xenc bitrate=...; -1 stands for a property the string does not set.
EncoderOf(streaming_config) ==
    IF streaming_config.codec = "JPEG"
    THEN [quality |-> streaming_config.encodingQuality, bitrate |-> -1]
    ELSE [quality |-> -1, bitrate |-> streaming_config.bitrate]

\* BuildCameraPipeline throws std::runtime_error for VP8, VP9 and unknown codecs.
BuildThrows(streaming_config) == streaming_config.codec \notin {"JPEG", "H264", "H265"}

\* UpdatePipelineProperties of a pipeline without an element named "encoder".
UpdatePipelinePropertiesNoEncoder(p, newCfg) == FALSE

\* UpdatePipelineProperties: its return value ...
UpdatePipelineProperties(p, newCfg) ==
    /\ p # 0
    /\ newCfg.codec \in {"JPEG", "H264", "H265"}

\* ... and the encoder's properties after its g_object_set.
EncoderAfterUpdate(enc, newCfg) ==
    CASE newCfg.codec = "JPEG" -> [enc EXCEPT !.quality = newCfg.encodingQuality]
      [] newCfg.codec \in {"H264", "H265"} -> [enc EXCEPT !.bitrate = newCfg.bitrate]
      [] OTHER -> enc

----------------------------------------------------------------------------
(* main.cpp: RunCameraStreamingPipelineDynamic(sensorId) *)

Sensors == {0, 1}
\* the index the locals of RunPanoramicPipeline have in the model
PANO == 2
Workers == Sensors \cup {PANO}

MAX_CONSECUTIVE_FAILURES == 5

\* 1 << k
Shl1(k) == 2 ^ k

\* backoff_ms for the failure count n (n >= 1).
BackoffMs(n) ==
    IF n < MAX_CONSECUTIVE_FAILURES THEN 200 * Shl1(n - 1) ELSE 10000

NoBackoff == [path |-> "none", failures |-> 0, ms |-> 0]

\* The version-0 tests disabled: every version counts as initialised.
VersionZeroIgnored(version) == FALSE

\* seen_version == 0, cfg_version.load() == 0: no update has been stored yet.
VersionZero(version) == version = 0

\* Loop head: the stop check, the slow-retry check, and the snapshot of the cell
\* under cfg_mutex with the version-0 and Mono checks that follow it.
SensorTop(w) ==
    /\ ~aborted
    /\ wpc[w] = "top"
    /\ w \in sched \/ stop_requested
    /\ IF stop_requested
       THEN /\ wpc' = [wpc EXCEPT ![w] = "done"]
            /\ UNCHANGED <<seen_version, read_cfg, seen_names>>
       ELSE IF consecutive_failures[w] >= MAX_CONSECUTIVE_FAILURES
       THEN /\ wpc' = [wpc EXCEPT ![w] = "slow"]
            /\ UNCHANGED <<seen_version, read_cfg, seen_names>>
       ELSE /\ read_cfg' = [read_cfg EXCEPT ![w] = desired_cfg]
            /\ seen_version' = [seen_version EXCEPT ![w] = cfg_version]
            /\ seen_names' = [seen_names EXCEPT ![w] = desired_cfg]
            /\ wpc' = [wpc EXCEPT ![w] =
                         IF VersionZero(cfg_version) THEN "top"
                         ELSE IF desired_cfg.videoMode = "MONO" /\ w = 1 THEN "top"
                         ELSE "build"]
    /\ backoff' = [backoff EXCEPT ![w] = NoBackoff]
    /\ UNCHANGED <<consecutive_failures, pipeline, gstState, encoder, rebuild,
                   error_during_streaming, current_version, current_configs, pano_cfg,
                   loaded_names>>
    /\ UNCHANGED <<cellVars, lockVars, selectorVars, listenerVars, stop_requested,
                   pipelines, ctrl_pc, main_pc, aborted, sched, faults>>
    /\ UNCHANGED dynamic_update
    /\ UNCHANGED nonSrvVars

\* Slow-retry mode with a counter that nothing resets.
SensorSlowNeverResets(w) ==
    /\ ~aborted
    /\ wpc[w] = "slow"
    /\ wpc' = [wpc EXCEPT ![w] = "top"]
    /\ UNCHANGED <<seen_version, read_cfg, consecutive_failures, pipeline, gstState,
                   encoder, rebuild, error_during_streaming, current_version, backoff,
                   current_configs, pano_cfg, loaded_names, seen_names>>
    /\ UNCHANGED <<cellVars, lockVars, selectorVars, listenerVars, stop_requested,
                   pipelines, ctrl_pc, main_pc, aborted, sched, faults>>
    /\ UNCHANGED dynamic_update
    /\ UNCHANGED nonSrvVars

\* Slow-retry mode with a counter that every sleep resets.
SensorSlowAlwaysResets(w) ==
    /\ ~aborted
    /\ wpc[w] = "slow"
    /\ consecutive_failures' =
           [consecutive_failures EXCEPT ![w] =
               0]
    /\ wpc' = [wpc EXCEPT ![w] = "top"]
    /\ UNCHANGED <<seen_version, read_cfg, pipeline, gstState, encoder, rebuild,
                   error_during_streaming, current_version, backoff, current_configs,
                   pano_cfg, loaded_names, seen_names>>
    /\ UNCHANGED <<cellVars, lockVars, selectorVars, listenerVars, stop_requested,
                   pipelines, ctrl_pc, main_pc, aborted, sched, faults>>
    /\ UNCHANGED dynamic_update
    /\ UNCHANGED nonSrvVars

\* Slow-retry mode, after the 10 s sleep: a changed version resets the counter.
SensorSlow(w) ==
    /\ ~aborted
    /\ wpc[w] = "slow"
    /\ consecutive_failures' =
           [consecutive_failures EXCEPT ![w] =
               IF cfg_version # seen_version[w] THEN 0 ELSE @]
    /\ wpc' = [wpc EXCEPT ![w] = "top"]
    /\ UNCHANGED <<seen_version, read_cfg, pipeline, gstState, encoder, rebuild,
                   error_during_streaming, current_version, backoff, current_configs,
                   pano_cfg, loaded_names, seen_names>>
    /\ UNCHANGED <<cellVars, lockVars, selectorVars, listenerVars, stop_requested,
                   pipelines, ctrl_pc, main_pc, aborted, sched, faults>>
    /\ UNCHANGED dynamic_update
    /\ UNCHANGED nonSrvVars

\* BuildCameraPipeline and the publication in pipelines[] under pipelines_mutex; the
\* catch block when it throws.
SensorBuild(w) ==
    /\ ~aborted
    /\ wpc[w] = "build"
    /\ IF BuildThrows(read_cfg[w])
       THEN /\ consecutive_failures' = [consecutive_failures EXCEPT ![w] = @ + 1]
            /\ backoff' = [backoff EXCEPT ![w] =
                   [path |-> "build", failures |-> consecutive_failures[w] + 1,
                    ms |-> BackoffMs(consecutive_failures[w] + 1)]]
            /\ wpc' = [wpc EXCEPT ![w] = "top"]
            /\ UNCHANGED <<pipeline, gstState, encoder, pipelines>>
       ELSE /\ pipelines_mutex = "free"
            /\ pipeline' = [pipeline EXCEPT ![w] = w + 1]
            /\ gstState' = [gstState EXCEPT ![w] = "NULL"]
            /\ encoder' = [encoder EXCEPT ![w] = EncoderOf(read_cfg[w])]
            /\ pipelines' = [pipelines EXCEPT ![w] = w + 1]
            /\ wpc' = [wpc EXCEPT ![w] = "play"]
            /\ UNCHANGED <<consecutive_failures, backoff>>
    /\ UNCHANGED <<seen_version, read_cfg, rebuild, error_during_streaming,
                   current_version, current_configs, pano_cfg, loaded_names, seen_names>>
    /\ UNCHANGED <<cellVars, lockVars, selectorVars, listenerVars, stop_requested,
                   ctrl_pc, main_pc, aborted, sched, faults>>
    /\ dynamic_update' = [dynamic_update EXCEPT ![w] = FALSE]
    /\ UNCHANGED nonSrvVars

\* gst_element_set_state(pipeline, GST_STATE_PLAYING) succeeds: the failure counter
\* is reset and the config is cached in current_configs[sensorId].
SensorPlayOk(w) ==
    /\ ~aborted
    /\ wpc[w] = "play"
    /\ gstState' = [gstState EXCEPT ![w] = "PLAYING"]
    /\ consecutive_failures' = [consecutive_failures EXCEPT ![w] = 0]
    /\ current_configs' = [current_configs EXCEPT ![w] = read_cfg[w]]
    /\ rebuild' = [rebuild EXCEPT ![w] = FALSE]
    /\ error_during_streaming' = [error_during_streaming EXCEPT ![w] = FALSE]
    /\ wpc' = [wpc EXCEPT ![w] = "poll"]
    /\ UNCHANGED <<seen_version, read_cfg, pipeline, encoder, current_version, backoff,
                   pano_cfg, loaded_names, seen_names>>
    /\ UNCHANGED <<cellVars, lockVars, selectorVars, listenerVars, stop_requested,
                   pipelines, ctrl_pc, main_pc, aborted, sched, faults>>
    /\ UNCHANGED dynamic_update
    /\ UNCHANGED nonSrvVars

\* It returns GST_STATE_CHANGE_FAILURE: StopPipeline (the pipelines[] entry is left
\* as it is), one more failure, backoff.
SensorPlayFails(w) ==
    /\ ~aborted
    /\ wpc[w] = "play"
    /\ faults < MaxFaults
    /\ faults' = faults + 1
    /\ gstState' = [gstState EXCEPT ![w] = "RELEASED"]
    /\ pipeline' = [pipeline EXCEPT ![w] = 0]
    /\ consecutive_failures' = [consecutive_failures EXCEPT ![w] = @ + 1]
    /\ backoff' = [backoff EXCEPT ![w] =
           [path |-> "play", failures |-> consecutive_failures[w] + 1,
            ms |-> BackoffMs(consecutive_failures[w] + 1)]]
    /\ wpc' = [wpc EXCEPT ![w] = "top"]
    /\ UNCHANGED <<seen_version, read_cfg, encoder, rebuild, error_during_streaming,
                   current_version, current_configs, pano_cfg, loaded_names, seen_names>>
    /\ UNCHANGED <<cellVars, lockVars, selectorVars, listenerVars, stop_requested,
                   pipelines, ctrl_pc, main_pc, aborted, sched>>
    /\ UNCHANGED dynamic_update
    /\ UNCHANGED nonSrvVars

\* One round of the streaming loop: its condition, the 100 ms bus poll (msg: an
\* Error/EOS message was popped) and the load of cfg_version.
SensorPoll(w, msg) ==
    /\ ~aborted
    /\ wpc[w] = "poll"
    /\ IF stop_requested \/ rebuild[w]
       THEN /\ ~msg
            /\ wpc' = [wpc EXCEPT ![w] = "teardown"]
            /\ UNCHANGED <<rebuild, error_during_streaming, current_version, faults,
                           loaded_names>>
       ELSE /\ msg => faults < MaxFaults
            /\ faults' = IF msg THEN faults + 1 ELSE faults
            /\ rebuild' = [rebuild EXCEPT ![w] = msg]
            /\ error_during_streaming' = [error_during_streaming EXCEPT ![w] = msg]
            /\ current_version' = [current_version EXCEPT ![w] = cfg_version]
            /\ loaded_names' = [loaded_names EXCEPT ![w] = desired_cfg]
            /\ wpc' = [wpc EXCEPT ![w] =
                         IF cfg_version # seen_version[w] THEN "reread" ELSE "poll"]
    /\ UNCHANGED <<seen_version, read_cfg, consecutive_failures, pipeline, gstState,
                   encoder, backoff, current_configs, pano_cfg, seen_names>>
    /\ UNCHANGED <<cellVars, lockVars, selectorVars, listenerVars, stop_requested,
                   pipelines, ctrl_pc, main_pc, aborted, sched>>
    /\ UNCHANGED dynamic_update
    /\ UNCHANGED nonSrvVars

\* The version changed: new_cfg is read under cfg_mutex, seen_version takes the
\* version loaded before, and the change is applied in place or forces a rebuild.
SensorReread(w) ==
    /\ ~aborted
    /\ wpc[w] = "reread"
    /\ read_cfg' = [read_cfg EXCEPT ![w] = desired_cfg]
    /\ seen_version' = [seen_version EXCEPT ![w] = current_version[w]]
    /\ seen_names' = [seen_names EXCEPT ![w] = loaded_names[w]]
    /\ IF CanUpdateDynamically(current_configs[w], desired_cfg)
       THEN IF UpdatePipelineProperties(pipeline[w], desired_cfg)
            THEN /\ encoder' = [encoder EXCEPT ![w] = EncoderAfterUpdate(@, desired_cfg)]
                 /\ current_configs' = [current_configs EXCEPT ![w] = desired_cfg]
                 /\ dynamic_update' = [dynamic_update EXCEPT ![w] = TRUE]
                 /\ UNCHANGED rebuild
            ELSE /\ rebuild' = [rebuild EXCEPT ![w] = TRUE]
                 /\ UNCHANGED <<encoder, current_configs, dynamic_update>>
       ELSE /\ rebuild' = [rebuild EXCEPT ![w] = TRUE]
            /\ UNCHANGED <<encoder, current_configs, dynamic_update>>
    /\ wpc' = [wpc EXCEPT ![w] = "poll"]
    /\ UNCHANGED <<consecutive_failures, pipeline, gstState, error_during_streaming,
                   current_version, backoff, pano_cfg, loaded_names>>
    /\ UNCHANGED <<cellVars, lockVars, selectorVars, listenerVars, stop_requested,
                   pipelines, ctrl_pc, main_pc, aborted, sched, faults>>
    /\ UNCHANGED nonSrvVars

\* After the streaming loop: StopPipeline, pipelines[sensorId] = nullptr, and the
\* wait before the rebuild (backoff after an Error/EOS, 500 ms otherwise).
SensorTeardown(w) ==
    /\ ~aborted
    /\ wpc[w] = "teardown"
    /\ pipelines_mutex = "free"
    /\ gstState' = [gstState EXCEPT ![w] = "RELEASED"]
    /\ pipeline' = [pipeline EXCEPT ![w] = 0]
    /\ pipelines' = [pipelines EXCEPT ![w] = 0]
    /\ LET n == IF error_during_streaming[w] THEN consecutive_failures[w] + 1
                ELSE consecutive_failures[w]
       IN IF rebuild[w] /\ ~stop_requested
          THEN /\ consecutive_failures' = [consecutive_failures EXCEPT ![w] = n]
               /\ backoff' = [backoff EXCEPT ![w] =
                      IF n > 0
                      THEN [path |-> "stream", failures |-> n, ms |-> BackoffMs(n)]
                      ELSE [path |-> "rebuild", failures |-> 0, ms |-> 500]]
          ELSE UNCHANGED <<consecutive_failures, backoff>>
    /\ rebuild' = [rebuild EXCEPT ![w] = FALSE]
    /\ error_during_streaming' = [error_during_streaming EXCEPT ![w] = FALSE]
    /\ wpc' = [wpc EXCEPT ![w] = "top"]
    /\ UNCHANGED <<seen_version, read_cfg, encoder, current_version, current_configs,
                   pano_cfg, loaded_names, seen_names>>
    /\ UNCHANGED <<cellVars, lockVars, selectorVars, listenerVars, stop_requested,
                   ctrl_pc, main_pc, aborted, sched, faults>>
    /\ dynamic_update' = [dynamic_update EXCEPT ![w] = FALSE]
    /\ UNCHANGED nonSrvVars

----------------------------------------------------------------------------
(* main.cpp: RunPanoramicPipeline *)

PANORAMIC_NUM_CAMERAS == 6
PANORAMIC_ACTIVE_COUNT == 3
\* the sensors behind sink_0, sink_1, sink_2 ("only sensors 0,1,5 are open")
PANORAMIC_ACTIVE_SENSORS == <<0, 1, 5>>

PanoHandle == 3
SelHandle == 1

\* Loop head: the stop check and the snapshot under cfg_mutex, with the version-0
\* and the mode checks.
PanoTop ==
    /\ ~aborted
    /\ wpc[PANO] = "top"
    /\ IF stop_requested
       THEN /\ wpc' = [wpc EXCEPT ![PANO] = "done"]
            /\ UNCHANGED <<seen_version, read_cfg, seen_names, pano_cfg>>
       ELSE /\ read_cfg' = [read_cfg EXCEPT ![PANO] = desired_cfg]
            /\ pano_cfg' = desired_cfg
            /\ seen_version' = [seen_version EXCEPT ![PANO] = cfg_version]
            /\ seen_names' = [seen_names EXCEPT ![PANO] = desired_cfg]
            /\ wpc' = [wpc EXCEPT ![PANO] =
                         IF VersionZero(cfg_version) THEN "top"
                         ELSE IF desired_cfg.videoMode # "PANORAMIC" THEN "top"
                         ELSE "build"]
    /\ backoff' = [backoff EXCEPT ![PANO] = NoBackoff]
    /\ UNCHANGED <<consecutive_failures, pipeline, gstState, encoder, rebuild,
                   error_during_streaming, current_version, current_configs,
                   loaded_names>>
    /\ UNCHANGED <<cellVars, lockVars, selectorVars, listenerVars, stop_requested,
                   pipelines, ctrl_pc, main_pc, aborted, sched, faults>>
    /\ UNCHANGED dynamic_update
    /\ UNCHANGED nonSrvVars

\* GetPanoramicStreamingPipeline (it throws for VP8/VP9, and nothing catches it),
\* gst_parse_launch, and the caching of the selector and its pads under
\* selector_mutex.
PanoBuild ==
    /\ ~aborted
    /\ wpc[PANO] = "build"
    /\ IF BuildThrows(pano_cfg)
       THEN /\ aborted' = TRUE
            /\ UNCHANGED <<wpc, pipeline, gstState, encoder, selectorVars>>
       ELSE /\ selector_mutex = "free"
            /\ pipeline' = [pipeline EXCEPT ![PANO] = PanoHandle]
            /\ gstState' = [gstState EXCEPT ![PANO] = "NULL"]
            /\ encoder' = [encoder EXCEPT ![PANO] = EncoderOf(pano_cfg)]
            /\ panoramic_selector' = SelHandle
            /\ selector_pads' = [i \in 1..PANORAMIC_ACTIVE_COUNT |-> i - 1]
            /\ active_pad' = 0
            /\ wpc' = [wpc EXCEPT ![PANO] = "publish"]
            /\ UNCHANGED aborted
    /\ UNCHANGED <<seen_version, read_cfg, consecutive_failures, rebuild,
                   error_during_streaming, current_version, backoff, current_configs,
                   pano_cfg, loaded_names, seen_names>>
    /\ UNCHANGED <<cellVars, lockVars, listenerVars, stop_requested, pipelines, ctrl_pc,
                   main_pc, sched, faults>>
    /\ dynamic_update' = [dynamic_update EXCEPT ![PANO] = FALSE]
    /\ UNCHANGED nonSrvVars

\* gst_parse_launch returns nullptr: sleep 1 s and loop.
PanoParseFails ==
    /\ ~aborted
    /\ wpc[PANO] = "build"
    /\ ~BuildThrows(pano_cfg)
    /\ faults < MaxFaults
    /\ faults' = faults + 1
    /\ backoff' = [backoff EXCEPT ![PANO] = [path |-> "parse", failures |-> 0, ms |-> 1000]]
    /\ wpc' = [wpc EXCEPT ![PANO] = "top"]
    /\ UNCHANGED <<seen_version, read_cfg, consecutive_failures, pipeline, gstState,
                   encoder, rebuild, error_during_streaming, current_version,
                   current_configs, pano_cfg, loaded_names, seen_names>>
    /\ UNCHANGED <<cellVars, lockVars, selectorVars, listenerVars, stop_requested,
                   pipelines, ctrl_pc, main_pc, aborted, sched>>
    /\ UNCHANGED dynamic_update
    /\ UNCHANGED nonSrvVars

\* PanoPublish with pipelines_mutex kept by the worker after the write.
PanoPublishKeepsLock ==
    /\ ~aborted
    /\ wpc[PANO] = "publish"
    /\ pipelines_mutex = "free"
    /\ pipelines_mutex' = "pano"
    /\ pipelines' = [pipelines EXCEPT ![0] = pipeline[PANO]]
    /\ wpc' = [wpc EXCEPT ![PANO] = "play"]
    /\ UNCHANGED <<seen_version, read_cfg, consecutive_failures, pipeline, gstState,
                   encoder, rebuild, error_during_streaming, current_version, backoff,
                   current_configs, pano_cfg, loaded_names, seen_names>>
    /\ UNCHANGED <<cellVars, selector_mutex, selectorVars, listenerVars, stop_requested,
                   ctrl_pc, main_pc, aborted, sched, faults>>
    /\ UNCHANGED dynamic_update
    /\ UNCHANGED nonSrvVars

\* pipelines[0] = pipeline, under pipelines_mutex.
PanoPublish ==
    /\ ~aborted
    /\ wpc[PANO] = "publish"
    /\ pipelines_mutex = "free"
    /\ pipelines' = [pipelines EXCEPT ![0] = pipeline[PANO]]
    /\ wpc' = [wpc EXCEPT ![PANO] = "play"]
    /\ UNCHANGED <<seen_version, read_cfg, consecutive_failures, pipeline, gstState,
                   encoder, rebuild, error_during_streaming, current_version, backoff,
                   current_configs, pano_cfg, loaded_names, seen_names>>
    /\ UNCHANGED <<cellVars, lockVars, selectorVars, listenerVars, stop_requested,
                   ctrl_pc, main_pc, aborted, sched, faults>>
    /\ UNCHANGED dynamic_update
    /\ UNCHANGED nonSrvVars

\* The Playing transition succeeds.
PanoPlayOk ==
    /\ ~aborted
    /\ wpc[PANO] = "play"
    /\ gstState' = [gstState EXCEPT ![PANO] = "PLAYING"]
    /\ rebuild' = [rebuild EXCEPT ![PANO] = FALSE]
    /\ wpc' = [wpc EXCEPT ![PANO] = "poll"]
    /\ UNCHANGED <<seen_version, read_cfg, consecutive_failures, pipeline, encoder,
                   error_during_streaming, current_version, backoff, current_configs,
                   pano_cfg, loaded_names, seen_names>>
    /\ UNCHANGED <<cellVars, lockVars, selectorVars, listenerVars, stop_requested,
                   pipelines, ctrl_pc, main_pc, aborted, sched, faults>>
    /\ UNCHANGED dynamic_update
    /\ UNCHANGED nonSrvVars

\* It fails: the selector state is cleared under selector_mutex, StopPipeline (the
\* pipelines[0] entry is left as it is), sleep 1 s.
PanoPlayFails ==
    /\ ~aborted
    /\ wpc[PANO] = "play"
    /\ faults < MaxFaults
    /\ faults' = faults + 1
    /\ selector_mutex = "free"
    /\ selector_pads' = <<>>
    /\ panoramic_selector' = 0
    /\ gstState' = [gstState EXCEPT ![PANO] = "RELEASED"]
    /\ pipeline' = [pipeline EXCEPT ![PANO] = 0]
    /\ backoff' = [backoff EXCEPT ![PANO] = [path |-> "play", failures |-> 0, ms |-> 1000]]
    /\ wpc' = [wpc EXCEPT ![PANO] = "top"]
    /\ UNCHANGED <<seen_version, read_cfg, consecutive_failures, encoder, rebuild,
                   error_during_streaming, current_version, current_configs, pano_cfg,
                   loaded_names, seen_names, active_pad>>
    /\ UNCHANGED <<cellVars, lockVars, listenerVars, stop_requested, pipelines, ctrl_pc,
                   main_pc, aborted, sched>>
    /\ UNCHANGED dynamic_update
    /\ UNCHANGED nonSrvVars

\* One round of the monitoring loop: its condition, the 100 ms bus poll and the load
\* of cfg_version.
PanoPoll(msg) ==
    /\ ~aborted
    /\ wpc[PANO] = "poll"
    /\ IF stop_requested \/ rebuild[PANO]
       THEN /\ ~msg
            /\ wpc' = [wpc EXCEPT ![PANO] = "teardown"]
            /\ UNCHANGED <<rebuild, current_version, faults, loaded_names>>
       ELSE /\ msg => faults < MaxFaults
            /\ faults' = IF msg THEN faults + 1 ELSE faults
            /\ rebuild' = [rebuild EXCEPT ![PANO] = msg]
            /\ current_version' = [current_version EXCEPT ![PANO] = cfg_version]
            /\ loaded_names' = [loaded_names EXCEPT ![PANO] = desired_cfg]
            /\ wpc' = [wpc EXCEPT ![PANO] =
                         IF cfg_version # seen_version[PANO] THEN "reread" ELSE "poll"]
    /\ UNCHANGED <<seen_version, read_cfg, consecutive_failures, pipeline, gstState,
                   encoder, error_during_streaming, backoff, current_configs, pano_cfg,
                   seen_names>>
    /\ UNCHANGED <<cellVars, lockVars, selectorVars, listenerVars, stop_requested,
                   pipelines, ctrl_pc, main_pc, aborted, sched>>
    /\ UNCHANGED dynamic_update
    /\ UNCHANGED nonSrvVars

\* The version changed: new_cfg is read under cfg_mutex; a mode other than
\* Panoramic or a structural change asks for a rebuild, anything else is applied
\* in place (the result of UpdatePipelineProperties is not looked at).
PanoReread ==
    /\ ~aborted
    /\ wpc[PANO] = "reread"
    /\ read_cfg' = [read_cfg EXCEPT ![PANO] = desired_cfg]
    /\ seen_version' = [seen_version EXCEPT ![PANO] = current_version[PANO]]
    /\ seen_names' = [seen_names EXCEPT ![PANO] = loaded_names[PANO]]
    /\ IF desired_cfg.videoMode # "PANORAMIC"
       THEN /\ rebuild' = [rebuild EXCEPT ![PANO] = TRUE]
            /\ UNCHANGED <<encoder, pano_cfg, dynamic_update>>
       ELSE IF CanUpdateDynamically(pano_cfg, desired_cfg)
       THEN /\ encoder' = [encoder EXCEPT ![PANO] =
                   IF UpdatePipelineProperties(pipeline[PANO], desired_cfg)
                   THEN EncoderAfterUpdate(@, desired_cfg) ELSE @]
            /\ dynamic_update' = [dynamic_update EXCEPT ![PANO] =
                   UpdatePipelineProperties(pipeline[PANO], desired_cfg) \/ @]
            /\ pano_cfg' = desired_cfg
            /\ UNCHANGED rebuild
       ELSE /\ rebuild' = [rebuild EXCEPT ![PANO] = TRUE]
            /\ UNCHANGED <<encoder, pano_cfg, dynamic_update>>
    /\ wpc' = [wpc EXCEPT ![PANO] = "poll"]
    /\ UNCHANGED <<consecutive_failures, pipeline, gstState, error_during_streaming,
                   current_version, backoff, current_configs, loaded_names>>
    /\ UNCHANGED <<cellVars, lockVars, selectorVars, listenerVars, stop_requested,
                   pipelines, ctrl_pc, main_pc, aborted, sched, faults>>
    /\ UNCHANGED nonSrvVars

\* After the loop: the selector state is cleared under selector_mutex.
PanoTeardown ==
    /\ ~aborted
    /\ wpc[PANO] = "teardown"
    /\ selector_mutex = "free"
    /\ selector_pads' = <<>>
    /\ panoramic_selector' = 0
    /\ wpc' = [wpc EXCEPT ![PANO] = "stop"]
    /\ UNCHANGED <<seen_version, read_cfg, consecutive_failures, pipeline, gstState,
                   encoder, rebuild, error_during_streaming, current_version, backoff,
                   current_configs, pano_cfg, loaded_names, seen_names, active_pad>>
    /\ UNCHANGED <<cellVars, lockVars, listenerVars, stop_requested, pipelines, ctrl_pc,
                   main_pc, aborted, sched, faults>>
    /\ UNCHANGED dynamic_update
    /\ UNCHANGED nonSrvVars

\* StopPipeline, pipelines[0] = nullptr under pipelines_mutex, and the 500 ms wait
\* before a rebuild.
PanoStop ==
    /\ ~aborted
    /\ wpc[PANO] = "stop"
    /\ pipelines_mutex = "free"
    /\ gstState' = [gstState EXCEPT ![PANO] = "RELEASED"]
    /\ pipeline' = [pipeline EXCEPT ![PANO] = 0]
    /\ pipelines' = [pipelines EXCEPT ![0] = 0]
    /\ backoff' = [backoff EXCEPT ![PANO] =
           IF rebuild[PANO] /\ ~stop_requested
           THEN [path |-> "rebuild", failures |-> 0, ms |-> 500] ELSE @]
    /\ rebuild' = [rebuild EXCEPT ![PANO] = FALSE]
    /\ wpc' = [wpc EXCEPT ![PANO] = "top"]
    /\ UNCHANGED <<seen_version, read_cfg, consecutive_failures, encoder,
                   error_during_streaming, current_version, current_configs, pano_cfg,
                   loaded_names, seen_names>>
    /\ UNCHANGED <<cellVars, lockVars, selectorVars, listenerVars, stop_requested,
                   ctrl_pc, main_pc, aborted, sched, faults>>
    /\ dynamic_update' = [dynamic_update EXCEPT ![PANO] = FALSE]
    /\ UNCHANGED nonSrvVars

----------------------------------------------------------------------------
(* main.cpp: CameraSelectListener *)

\* buf[0] of the datagrams the listener is sent; -1 stands for recvfrom returning
\* n < 1 (the 1 s timeout).
SelectInputs == {-1, 0, 1, 2, 5, 6}

\* pad_index for new_camera: the first i with PANORAMIC_ACTIVE_SENSORS[i] ==
\* new_camera, or -1.
PadIndexOf(new_camera) ==
    IF \E i \in 1..PANORAMIC_ACTIVE_COUNT : PANORAMIC_ACTIVE_SENSORS[i] = new_camera
    THEN (CHOOSE i \in 1..PANORAMIC_ACTIVE_COUNT :
              /\ PANORAMIC_ACTIVE_SENSORS[i] = new_camera
              /\ \A j \in 1..(i - 1) : PANORAMIC_ACTIVE_SENSORS[j] # new_camera) - 1
    ELSE -1

\* socket() and bind() succeed.
SelStart ==
    /\ ~aborted
    /\ sel_pc = "start"
    /\ sel_pc' = "loop"
    /\ UNCHANGED <<current_camera, pad_index, key_frame_to>>
    /\ UNCHANGED <<cellVars, lockVars, workerVars, selectorVars, stop_requested, pipelines,
                   ctrl_pc, main_pc, aborted, sched, faults>>
    /\ UNCHANGED nonSrvVars

\* socket() or bind() fails: the listener returns.
SelStartFails ==
    /\ ~aborted
    /\ sel_pc = "start"
    /\ faults < MaxFaults
    /\ faults' = faults + 1
    /\ sel_pc' = "done"
    /\ UNCHANGED <<current_camera, pad_index, key_frame_to>>
    /\ UNCHANGED <<cellVars, lockVars, workerVars, selectorVars, stop_requested, pipelines,
                   ctrl_pc, main_pc, aborted, sched>>
    /\ UNCHANGED nonSrvVars

\* The loop condition, recvfrom, and the checks made before selector_mutex is taken.
SelRecv(b) ==
    /\ ~aborted
    /\ sel_pc = "loop"
    /\ IF stop_requested
       THEN /\ b = -1
            /\ sel_pc' = "done"
            /\ UNCHANGED pad_index
       ELSE IF \/ b < 0
               \/ b >= PANORAMIC_NUM_CAMERAS
               \/ b = current_camera
               \/ PadIndexOf(b) < 0
       THEN UNCHANGED <<sel_pc, pad_index>>
       ELSE /\ pad_index' = PadIndexOf(b)
            /\ sel_pc' = "switch"
    /\ UNCHANGED <<current_camera, key_frame_to>>
    /\ UNCHANGED <<cellVars, lockVars, workerVars, selectorVars, stop_requested, pipelines,
                   ctrl_pc, main_pc, aborted, sched, faults>>
    /\ UNCHANGED nonSrvVars

\* Under selector_mutex: the active pad is set; the lock stays held. pad_index is a
\* local of the loop body, initialised to -1 in every iteration.
SelSwitch ==
    /\ ~aborted
    /\ sel_pc = "switch"
    /\ selector_mutex = "free"
    /\ IF panoramic_selector = 0 \/ pad_index >= Len(selector_pads)
       THEN /\ sel_pc' = "loop"
            /\ pad_index' = -1
            /\ UNCHANGED <<active_pad, current_camera, selector_mutex>>
       ELSE /\ active_pad' = selector_pads[pad_index + 1]
            /\ current_camera' = PANORAMIC_ACTIVE_SENSORS[pad_index + 1]
            /\ selector_mutex' = "sel"
            /\ sel_pc' = "lockpipelines"
            /\ pad_index' = -1
    /\ UNCHANGED <<key_frame_to, pipelines_mutex, panoramic_selector, selector_pads>>
    /\ UNCHANGED <<cellVars, workerVars, stop_requested, pipelines, ctrl_pc, main_pc,
                   aborted, sched, faults>>
    /\ UNCHANGED nonSrvVars

\* pipelines_mutex is taken while selector_mutex is held.
SelLockPipelines ==
    /\ ~aborted
    /\ sel_pc = "lockpipelines"
    /\ pipelines_mutex = "free"
    /\ IF pipelines[0] # 0
       THEN /\ pipelines_mutex' = "sel"
            /\ sel_pc' = "keyframe"
            /\ UNCHANGED selector_mutex
       ELSE /\ selector_mutex' = "free"
            /\ sel_pc' = "loop"
            /\ UNCHANGED pipelines_mutex
    /\ UNCHANGED <<current_camera, pad_index, key_frame_to>>
    /\ UNCHANGED <<cellVars, workerVars, selectorVars, stop_requested, pipelines, ctrl_pc,
                   main_pc, aborted, sched, faults>>
    /\ UNCHANGED nonSrvVars

\* desired_cfg is copied under cfg_mutex, ForceKeyFrame(pipelines[0]) for H264 and
\* H265, and both locks are released at the end of the iteration.
SelKeyFrame ==
    /\ ~aborted
    /\ sel_pc = "keyframe"
    /\ key_frame_to' = IF desired_cfg.codec \in {"H264", "H265"} THEN pipelines[0]
                       ELSE key_frame_to
    /\ pipelines_mutex' = "free"
    /\ selector_mutex' = "free"
    /\ sel_pc' = "loop"
    /\ UNCHANGED <<current_camera, pad_index>>
    /\ UNCHANGED <<cellVars, workerVars, selectorVars, stop_requested, pipelines, ctrl_pc,
                   main_pc, aborted, sched, faults>>
    /\ UNCHANGED nonSrvVars

----------------------------------------------------------------------------
(* main.cpp: main and RunCameraStreaming *)

\* The wait for the initial config ends: on a stop request RunCameraStreaming
\* returns 0; otherwise the mode of desired_cfg decides which threads run.
MainWait ==
    /\ ~aborted
    /\ main_pc = "wait"
    /\ stop_requested \/ ~VersionZero(cfg_version)
    /\ IF stop_requested
       THEN /\ main_pc' = "joinctrl"
            /\ UNCHANGED <<wpc, sel_pc, sched>>
       ELSE IF desired_cfg.videoMode = "PANORAMIC"
       THEN /\ main_pc' = "pano"
            /\ wpc' = [wpc EXCEPT ![PANO] = "top"]
            /\ sel_pc' = "start"
            /\ UNCHANGED sched
       ELSE /\ main_pc' = "join"
            /\ wpc' = [w \in Workers |-> IF w \in Sensors THEN "top" ELSE wpc[w]]
            /\ \E w \in Sensors : sched' = {w}
            /\ UNCHANGED sel_pc
    /\ UNCHANGED <<seen_version, read_cfg, consecutive_failures, pipeline, gstState,
                   encoder, rebuild, error_during_streaming, current_version, backoff,
                   current_configs, pano_cfg, loaded_names, seen_names>>
    /\ UNCHANGED <<current_camera, pad_index, key_frame_to>>
    /\ UNCHANGED <<cellVars, lockVars, selectorVars, stop_requested, pipelines, ctrl_pc,
                   aborted, faults>>
    /\ UNCHANGED dynamic_update
    /\ UNCHANGED nonSrvVars

\* t0.join(); t1.join();
MainJoin ==
    /\ ~aborted
    /\ main_pc = "join"
    /\ \A w \in Sensors : wpc[w] = "done"
    /\ main_pc' = "joinctrl"
    /\ UNCHANGED <<cellVars, lockVars, workerVars, selectorVars, listenerVars,
                   stop_requested, pipelines, ctrl_pc, aborted, sched, faults>>
    /\ UNCHANGED nonSrvVars

\* RunPanoramicPipeline has returned on the main thread; camSelectThread.join();
MainJoinSelect ==
    /\ ~aborted
    /\ main_pc = "pano"
    /\ wpc[PANO] = "done"
    /\ sel_pc = "done"
    /\ main_pc' = "joinctrl"
    /\ UNCHANGED <<cellVars, lockVars, workerVars, selectorVars, listenerVars,
                   stop_requested, pipelines, ctrl_pc, aborted, sched, faults>>
    /\ UNCHANGED nonSrvVars

\* main: stop_requested.store(true);
MainStop ==
    /\ ~aborted
    /\ main_pc = "joinctrl"
    /\ stop_requested' = TRUE
    /\ main_pc' = "ctrljoin"
    /\ UNCHANGED <<cellVars, lockVars, workerVars, selectorVars, listenerVars, pipelines,
                   ctrl_pc, aborted, sched, faults>>
    /\ UNCHANGED nonSrvVars

\* main: ctrl.join(); return rc;
MainReturn ==
    /\ ~aborted
    /\ main_pc = "ctrljoin"
    /\ ctrl_pc = "done"
    /\ main_pc' = "returned"
    /\ UNCHANGED <<cellVars, lockVars, workerVars, selectorVars, listenerVars, pipelines,
                   ctrl_pc, stop_requested, aborted, sched, faults>>
    /\ UNCHANGED nonSrvVars

----------------------------------------------------------------------------
(* The supervisor: main.cpp as a whole *)

SrvInit ==
    /\ desired_cfg = ZeroConfig
    /\ cfg_version = 0
    /\ stop_requested = FALSE
    /\ current_configs = [w \in Sensors |-> ZeroConfig]
    /\ pipelines = [w \in Sensors |-> 0]
    /\ pipelines_mutex = "free"
    /\ selector_mutex = "free"
    /\ panoramic_selector = 0
    /\ selector_pads = <<>>
    /\ active_pad = 0
    /\ ctrl_pc = "read"
    /\ main_pc = "wait"
    /\ aborted = FALSE
    /\ sched = {}
    /\ wpc = [w \in Workers |-> "idle"]
    /\ seen_version = [w \in Workers |-> 0]
    /\ read_cfg = [w \in Workers |-> ZeroConfig]
    /\ consecutive_failures = [w \in Workers |-> 0]
    /\ pipeline = [w \in Workers |-> 0]
    /\ gstState = [w \in Workers |-> "NONE"]
    /\ encoder = [w \in Workers |-> [quality |-> -1, bitrate |-> -1]]
    /\ rebuild = [w \in Workers |-> FALSE]
    /\ error_during_streaming = [w \in Workers |-> FALSE]
    /\ current_version = [w \in Workers |-> 0]
    /\ backoff = [w \in Workers |-> NoBackoff]
    /\ pano_cfg = ZeroConfig
    /\ dynamic_update = [w \in Workers |-> FALSE]
    /\ sel_pc = "idle"
    /\ current_camera = 0
    /\ pad_index = -1
    /\ key_frame_to = 0
    /\ faults = 0
    /\ loaded_names = [w \in Workers |-> ZeroConfig]
    /\ seen_names = [w \in Workers |-> ZeroConfig]

SrvNext ==
    \/ \E line \in Lines : ControlLine(line)
    \/ ControlEof
    \/ MainWait
    \/ MainJoin
    \/ MainJoinSelect
    \/ MainStop
    \/ MainReturn
    \/ \E w \in Sensors : SensorTop(w)
    \/ \E w \in Sensors : SensorSlow(w)
    \/ \E w \in Sensors : SensorBuild(w)
    \/ \E w \in Sensors : SensorPlayOk(w)
    \/ \E w \in Sensors : SensorPlayFails(w)
    \/ \E w \in Sensors, msg \in BOOLEAN : SensorPoll(w, msg)
    \/ \E w \in Sensors : SensorReread(w)
    \/ \E w \in Sensors : SensorTeardown(w)
    \/ PanoTop
    \/ PanoBuild
    \/ PanoParseFails
    \/ PanoPublish
    \/ PanoPlayOk
    \/ PanoPlayFails
    \/ \E msg \in BOOLEAN : PanoPoll(msg)
    \/ PanoReread
    \/ PanoTeardown
    \/ PanoStop
    \/ SelStart
    \/ SelStartFails
    \/ \E b \in SelectInputs : SelRecv(b)
    \/ SelSwitch
    \/ SelLockPipelines
    \/ SelKeyFrame

----------------------------------------------------------------------------
(* Properties of the supervisor *)

\* C1: every read of the (desired_cfg, cfg_version) cell by a worker yields a
\* matching pair: the config a worker holds is the one that the version it holds
\* names, after the first snapshot and after every re-read in the streaming loop.
C1_ReadsAreMatchingPairs ==
    \A w \in Workers : read_cfg[w] = seen_names[w]

\* C2: while a worker's pipeline is Playing, a version change whose new config is
\* hot-swappable against the worker's cached config is applied in place: the
\* pipeline handle, its state, its entry in pipelines[] and the rebuild flag stay as
\* they are, the encoder carries the new quality or bitrate, and the cached config
\* becomes the new config.
C2_HotSwapInPlace ==
    [][ /\ \A w \in Sensors :
            (/\ SensorReread(w)
             /\ gstState[w] = "PLAYING"
             /\ CanUpdateDynamically(current_configs[w], desired_cfg))
            => /\ pipeline'[w] = pipeline[w] /\ pipeline'[w] # 0
               /\ pipelines'[w] = pipeline[w]
               /\ gstState'[w] = "PLAYING"
               /\ rebuild'[w] = rebuild[w]
               /\ encoder'[w] = EncoderOf(desired_cfg)
               /\ current_configs'[w] = desired_cfg
        /\ (/\ PanoReread
            /\ gstState[PANO] = "PLAYING"
            /\ CanUpdateDynamically(pano_cfg, desired_cfg))
            => /\ pipeline'[PANO] = pipeline[PANO] /\ pipeline'[PANO] # 0
               /\ pipelines'[0] = pipeline[PANO]
               /\ gstState'[PANO] = "PLAYING"
               /\ rebuild'[PANO] = rebuild[PANO]
               /\ encoder'[PANO] = EncoderOf(desired_cfg)
               /\ pano_cfg' = desired_cfg ]_vars

\* A sensor worker streams from a pipeline whose encoder quality was changed in
\* place: built with quality 85, now 60, never torn down.
C2_Witness ==
    \E w \in Sensors :
        /\ wpc[w] = "poll" /\ gstState[w] = "PLAYING" /\ ~rebuild[w]
        /\ dynamic_update[w]
        /\ current_configs[w] = CfgQuality
        /\ encoder[w].quality = 60

\* The restart delay the spec's table gives for the n-th consecutive failure.
BackoffTable(n) ==
    CASE n = 1 -> 200 [] n = 2 -> 400 [] n = 3 -> 800 [] n = 4 -> 1600
      [] n = 5 -> 3200 [] OTHER -> 10000

\* C6: the restart delay a sensor worker applies after its n-th consecutive failure
\* is 200, 400, 800, 1600, 3200 ms for n = 1..5 and 10000 ms for n >= 6, on the
\* three failure paths (build exception, failed Playing transition, Error/EOS
\* during streaming).
C6_BackoffFollowsTable ==
    \A w \in Sensors :
        backoff[w].path \in {"build", "play", "stream"} =>
            /\ backoff[w].failures >= 1
            /\ backoff[w].ms = BackoffTable(backoff[w].failures)

----------------------------------------------------------------------------
(* CanUpdateDynamically as a function of its two arguments *)

\* The configs it is called with: every combination of two values per member.
HsConfigs ==
    [ip : {"192.168.1.100", "10.0.0.2"}, portLeft : {8554, 9000},
     portRight : {8556, 9002}, codec : {"JPEG", "H264"}, encodingQuality : {85, 60},
     bitrate : {400000, 800000}, horizontalResolution : {1920, 1280},
     verticalResolution : {1080, 720}, videoMode : {"STEREO", "PANORAMIC"},
     fps : {60, 30}]

HsInit ==
    /\ hs_pc = "call"
    /\ hs_oldCfg \in {DEFAULT_STREAMING_CONFIG, CfgPanoBitrate}
    /\ hs_newCfg \in HsConfigs
    /\ hs_result = FALSE

HotSwapCall ==
    /\ hs_pc = "call"
    /\ hs_result' = CanUpdateDynamically(hs_oldCfg, hs_newCfg)
    /\ hs_pc' = "returned"
    /\ UNCHANGED <<hs_oldCfg, hs_newCfg>>
    /\ UNCHANGED nonHsVars

HsNext == HotSwapCall

\* the members whose change forces a rebuild
StructuralMembers == {"horizontalResolution", "verticalResolution", "fps", "codec",
                      "videoMode", "ip", "portLeft", "portRight"}

\* C3: CanUpdateDynamically(old, new) is true iff old and new agree on width,
\* height, frame rate, codec, mode, remote address, left port and right port: a
\* difference in any of them gives false, and two configs that differ at most in
\* encoder quality and bitrate give true.
C3_HotSwapIffNoStructuralChange ==
    hs_pc = "returned" =>
        /\ hs_result <=> (\A m \in StructuralMembers : hs_oldCfg[m] = hs_newCfg[m])
        /\ (\E m \in StructuralMembers : hs_oldCfg[m] # hs_newCfg[m]) => ~hs_result
        /\ ([hs_oldCfg EXCEPT !.encodingQuality = hs_newCfg.encodingQuality,
                             !.bitrate = hs_newCfg.bitrate] = hs_newCfg) => hs_result

\* A call that returned true for two configs that differ in quality and bitrate.
C3_Witness ==
    /\ hs_pc = "returned"
    /\ hs_result
    /\ hs_oldCfg.encodingQuality # hs_newCfg.encodingQuality
    /\ hs_oldCfg.bitrate # hs_newCfg.bitrate

----------------------------------------------------------------------------
(* streaming_driver/include/logging.h: the timing probes of one pipeline *)

Frames == 1..MaxFrames

\* uint16_t arithmetic
U16 == 65536

\* Stage: indices into the timestamp vector (0-based in the code)
CAMERA_SRC == 0
VIDEO_CONVERT == 1
ENCODER == 2
RTP_PAYLOADER == 3

\* The number of identities frame f has passed: 0..3, and 4 once a packet of it
\* has reached rtppay_ident.
StageOf(f) ==
    IF sent[f] # <<>> THEN 4 ELSE Len(passed[f])

\* Media-flow order at one identity: frame f reaches it after frame f - 1 did.
InOrder(f, k) == IF f = 1 THEN TRUE ELSE StageOf(f - 1) > k

\* PipelineState::updateCameraFrameDuration
DurationAfter(currentTime) ==
    IF lastCameraFrameTime # 0 THEN currentTime - lastCameraFrameTime
    ELSE cameraFrameDuration

\* OnIdentityHandoffCameraStreaming for camsrc_ident: HandleCameraSourceEvent, then
\* the timestamp is recorded.
CameraSrc(f, dt) ==
    /\ StageOf(f) = CAMERA_SRC
    /\ InOrder(f, CAMERA_SRC)
    /\ LET currentTime == now + dt
       IN /\ now' = currentTime
          /\ cameraFrameDuration' = DurationAfter(currentTime)
          /\ lastCameraFrameTime' = currentTime
          /\ IF timestampsStreaming # <<>>
             THEN /\ timestampsStreaming' = <<currentTime>>
                  /\ frameIdIncremented' = FALSE
             ELSE /\ timestampsStreaming' = Append(timestampsStreaming, currentTime)
                  /\ UNCHANGED frameIdIncremented
          /\ passed' = [passed EXCEPT ![f] = Append(@, currentTime)]
    /\ UNCHANGED <<frameId, sent, probe_faults>>
    /\ UNCHANGED nonLogVars

\* OnIdentityHandoffCameraStreaming for vidconv_ident and enc_ident: the timestamp
\* is recorded.
MidStage(f, k, dt) ==
    /\ k \in {VIDEO_CONVERT, ENCODER}
    /\ StageOf(f) = k
    /\ InOrder(f, k)
    /\ now' = now + dt
    /\ timestampsStreaming' = Append(timestampsStreaming, now + dt)
    /\ passed' = [passed EXCEPT ![f] = Append(@, now + dt)]
    /\ UNCHANGED <<frameId, frameIdIncremented, lastCameraFrameTime, cameraFrameDuration,
                   sent, probe_faults>>
    /\ UNCHANGED nonLogVars

\* The six values AddRtpHeaderMetadata packs, from the timestamp vector ts.
Metadata(ts) ==
    <<frameId,
      cameraFrameDuration,
      ts[VIDEO_CONVERT + 1] - ts[CAMERA_SRC + 1],
      ts[ENCODER + 1] - ts[VIDEO_CONVERT + 1],
      ts[RTP_PAYLOADER + 1] - ts[ENCODER + 1],
      ts[RTP_PAYLOADER + 1]>>

\* Extension IDs that follow the position of the value.
ExtensionIdByPosition(i) == i

\* The extension ID of the i-th gst_rtp_buffer_add_extension_onebyte_header call.
ExtensionId(i) == 1

\* OnIdentityHandoffCameraStreaming for one packet at rtppay_ident, with
\* AddRtpHeaderMetadata: mapOk is the result of gst_rtp_buffer_map, adds the number
\* of gst_rtp_buffer_add_extension_onebyte_header calls that succeed (the && chain
\* stops at the first that fails).
RtpPayloader(f, dt, mapOk, adds) ==
    /\ StageOf(f) >= RTP_PAYLOADER
    /\ InOrder(f, RTP_PAYLOADER)
    /\ Len(sent[f]) < MaxPackets
    /\ IF f < MaxFrames THEN sent[f + 1] = <<>> ELSE TRUE
    /\ LET currentTime == now + dt
           enters == ~frameIdIncremented
           ts == IF enters THEN Append(timestampsStreaming, currentTime)
                 ELSE timestampsStreaming
           maps == enters /\ Len(ts) >= 4
           stamps == maps /\ mapOk
           exts == [i \in 1..adds |-> [id |-> ExtensionId(i), data |-> Metadata(ts)[i]]]
       IN /\ ~maps => mapOk
          /\ ~stamps => adds = 6
          /\ (~mapOk \/ adds < 6) => probe_faults < MaxProbeFaults
          /\ probe_faults' = IF ~mapOk \/ adds < 6 THEN probe_faults + 1 ELSE probe_faults
          /\ now' = currentTime
          /\ timestampsStreaming' = ts
          /\ frameId' = IF stamps THEN (frameId + 1) % U16 ELSE frameId
          /\ frameIdIncremented' = (stamps \/ frameIdIncremented)
          /\ sent' = [sent EXCEPT ![f] =
                 Append(@, [at |-> currentTime, stamped |-> stamps,
                            ext |-> IF stamps THEN exts ELSE <<>>])]
    /\ UNCHANGED <<lastCameraFrameTime, cameraFrameDuration, passed>>
    /\ UNCHANGED nonLogVars

\* A pipeline that has just been created; frameId is where an earlier pipeline of
\* the same name left it.
LogInit ==
    /\ frameId \in {0, U16 - 1}
    /\ frameIdIncremented = FALSE
    /\ lastCameraFrameTime = 0
    /\ cameraFrameDuration = 0
    /\ timestampsStreaming = <<>>
    /\ now = 1
    /\ passed = [f \in Frames |-> <<>>]
    /\ sent = [f \in Frames |-> <<>>]
    /\ probe_faults = 0

\* The clock advances by 1..MaxDt microseconds while a frame is converted or
\* encoded, and by 1 microsecond before the other callbacks.
LogNext ==
    \/ \E f \in Frames : CameraSrc(f, 1)
    \/ \E f \in Frames, k \in {VIDEO_CONVERT, ENCODER}, dt \in 1..MaxDt : MidStage(f, k, dt)
    \/ \E f \in Frames, mapOk \in BOOLEAN, adds \in 0..6 : RtpPayloader(f, 1, mapOk, adds)

\* The frames and packets in the order they pass rtppay_ident.
PacketsFrom(f, k) ==
    {<<g, j>> \in Frames \X (1..MaxPackets) :
        /\ j <= Len(sent[g])
        /\ g > f \/ (g = f /\ j >= k)}

\* The value frameId had when packet k of frame f was stamped.
FrameIdAt(f, k) ==
    LET later == {p \in PacketsFrom(f, k) : sent[p[1]][p[2]].stamped}
    IN (frameId + U16 * MaxFrames * MaxPackets - Cardinality(later)) % U16

\* What the spec calls the TimingExtension of frame f, from the times at which the
\* frame passed the four identities.
TimingOf(f) ==
    <<FrameIdAt(f, 1),
      IF f = 1 THEN 0 ELSE passed[f][1] - passed[f - 1][1],
      passed[f][2] - passed[f][1],
      passed[f][3] - passed[f][2],
      sent[f][1].at - passed[f][3],
      sent[f][1].at>>

\* Frame f is not overlapped by its neighbours: the packets of frame f - 1 passed
\* rtppay_ident before f passed camsrc_ident, and frame f + 1 passed camsrc_ident
\* after the first packet of f.
NotOverlapped(f) ==
    /\ IF f > 1
       THEN \A k \in 1..Len(sent[f - 1]) : sent[f - 1][k].at < passed[f][1]
       ELSE TRUE
    /\ IF f < MaxFrames /\ sent[f] # <<>>
       THEN passed[f + 1] # <<>> => passed[f + 1][1] > sent[f][1].at
       ELSE TRUE

C5_OnlyFirstPacketStamped ==
    probe_faults = 0 =>
        \A f \in Frames : \A k \in 1..Len(sent[f]) :
            (sent[f][k].ext # <<>>) <=> (k = 1)

----------------------------------------------------------------------------
(* VR_App/src/ntp_timer.cpp: NtpTimer *)

FALLBACK_THRESHOLD == 5

\* "if (delay > 20000) return std::nullopt"
MaxRttUs == 20000

\* Unsigned arithmetic: uint64_t wraps at 2^64; the model keeps the wrap and uses
\* 2^30 in its place, with every timestamp below 2^21 as the real ones are below
\* 2^53.
WordModulus == 2 ^ 30

USub(a, b) == (a - b + WordModulus) % WordModulus

\* integer division of C++: truncation toward zero
TruncDiv(a, b) == IF a >= 0 THEN a \div b ELSE -((-a) \div b)

\* The exchanges of one sample attempt that gets a 48-byte reply: the local clock
\* at the send (T1), the time until the reply is read (T4 - T1), the server's
\* receive time (T2) and the time the server holds the request (T3 - T2).
LocalSendTimes == {1000000}
LocalWaits == {0, 20000, 20001, 30001}
ServerReceiveTimes == {999500}
ServerHolds == {0, 10000}

\* The round trip in signed arithmetic, without the wrap.
DelaySigned(T1, T2, T3, T4) == (T4 - T1) - (T3 - T2)

\* uint64_t delay = ((T4 - T1) - (T3 - T2));
Delay(T1, T2, T3, T4) == USub(USub(T4, T1), USub(T3, T2))

\* int64_t offset = ((int64_t)(T2 - T1) + (int64_t)(T3 - T4)) / 2;
Offset(T1, T2, T3, T4) == TruncDiv((T2 - T1) + (T3 - T4), 2)

\* smoothedOffsetUs_ = alpha * best.offset + (1.0 - alpha) * smoothedOffsetUs_, with
\* alpha = 0.1, converted back to int64_t.
Smoothed(bestOffset, old) == TruncDiv(bestOffset + 9 * old, 10)

\* The index SyncWithServer selects: the first sample with the lowest rtt.
BestIndex(gs) ==
    CHOOSE i \in 1..Len(gs) :
        /\ \A j \in 1..Len(gs) : gs[i].rtt <= gs[j].rtt
        /\ \A j \in 1..(i - 1) : gs[j].rtt > gs[i].rtt

\* A switch to the fallback that does not look at the failure counter.
ShouldFallBackAtOnce(gs, using, failures, fallback) ==
    /\ gs = <<>>
    /\ ~using
    /\ fallback # ""

\* SyncWithServer: the condition of "Fall back to public NTP server if primary is
\* unreachable".
ShouldFallBack(gs, using, failures, fallback) ==
    /\ gs = <<>>
    /\ ~using
    /\ failures >= FALLBACK_THRESHOLD
    /\ fallback # ""

\* GetOneNtpSample fails: the name does not resolve, no (or a short) reply within
\* the 1 s timeout, or an exception.
NtpSampleFails ==
    /\ cycles < MaxCycles
    /\ attempt < 3
    /\ consecutiveSyncFailures_' = consecutiveSyncFailures_ + 1
    /\ syncHealthy_' = FALSE
    /\ attempt' = attempt + 1
    /\ UNCHANGED <<ntpServerAddress_, fallbackServerAddress_, usingFallback_,
                   smoothedOffsetUs_, hasInitialOffset_, goodSamples, cycles,
                   failing_cycles>>
    /\ UNCHANGED nonNtpVars

\* GetOneNtpSample gets a reply: the sample is rejected when delay > 20000, else it
\* is accepted (the failure counter is reset, syncHealthy_ is set) and
\* SyncWithServer keeps it. trip is the round trip in signed arithmetic, kept
\* beside the sample.
NtpSampleReply(T1, T2, T3, T4) ==
    /\ cycles < MaxCycles
    /\ attempt < 3
    /\ LET delay == Delay(T1, T2, T3, T4)
       IN IF delay > MaxRttUs
          THEN UNCHANGED <<consecutiveSyncFailures_, syncHealthy_, goodSamples>>
          ELSE /\ consecutiveSyncFailures_' = 0
               /\ syncHealthy_' = TRUE
               /\ goodSamples' = Append(goodSamples,
                      [offset |-> Offset(T1, T2, T3, T4), rtt |-> delay,
                       trip |-> (T4 - T1) - (T3 - T2)])
    /\ attempt' = attempt + 1
    /\ UNCHANGED <<ntpServerAddress_, fallbackServerAddress_, usingFallback_,
                   smoothedOffsetUs_, hasInitialOffset_, cycles, failing_cycles>>
    /\ UNCHANGED nonNtpVars

\* SyncWithServer after its three attempts: the switch to the fallback server, or
\* the update of the smoothed offset from the best sample; then the timer starts
\* the next cycle 2 s later.
SyncEnd ==
    /\ attempt = 3
    /\ IF ShouldFallBack(goodSamples, usingFallback_, consecutiveSyncFailures_,
                         fallbackServerAddress_)
       THEN /\ ntpServerAddress_' = fallbackServerAddress_
            /\ usingFallback_' = TRUE
            /\ consecutiveSyncFailures_' = 0
            /\ UNCHANGED <<smoothedOffsetUs_, hasInitialOffset_>>
       ELSE IF goodSamples = <<>>
       THEN UNCHANGED <<ntpServerAddress_, usingFallback_, consecutiveSyncFailures_,
                        smoothedOffsetUs_, hasInitialOffset_>>
       ELSE /\ smoothedOffsetUs_' =
                   IF ~hasInitialOffset_ THEN goodSamples[BestIndex(goodSamples)].offset
                   ELSE Smoothed(goodSamples[BestIndex(goodSamples)].offset,
                                 smoothedOffsetUs_)
            /\ hasInitialOffset_' = TRUE
            /\ UNCHANGED <<ntpServerAddress_, usingFallback_, consecutiveSyncFailures_>>
    /\ failing_cycles' = IF goodSamples = <<>> THEN failing_cycles + 1 ELSE 0
    /\ cycles' = cycles + 1
    /\ goodSamples' = <<>>
    /\ attempt' = 0
    /\ UNCHANGED <<fallbackServerAddress_, syncHealthy_>>
    /\ UNCHANGED nonNtpVars

\* NtpTimer(ntpServerAddress, fallbackServerAddress), with or without a fallback.
NtpInit ==
    /\ ntpServerAddress_ = "10.0.31.42"
    /\ fallbackServerAddress_ \in {"pool.ntp.org", ""}
    /\ usingFallback_ = FALSE
    /\ smoothedOffsetUs_ = 0
    /\ hasInitialOffset_ = FALSE
    /\ syncHealthy_ = FALSE
    /\ consecutiveSyncFailures_ = 0
    /\ goodSamples = <<>>
    /\ attempt = 0
    /\ cycles = 0
    /\ failing_cycles = 0

NtpNext ==
    \/ NtpSampleFails
    \/ \E T1 \in LocalSendTimes, w \in LocalWaits, T2 \in ServerReceiveTimes,
          h \in ServerHolds : NtpSampleReply(T1, T2, T2 + h, T1 + w)
    \/ SyncEnd

C8_HealthyIffLastCycleAccepted ==
    (attempt = 0 /\ cycles > 0) => (syncHealthy_ <=> failing_cycles = 0)

\* C9: every accepted sample (every sample SyncWithServer keeps and may smooth the
\* offset with) has a round trip (T4 - T1) - (T3 - T2) between 0 and 20000
\* microseconds, which is the rtt it carries: a larger or a negative round trip is
\* never accepted.
C9_AcceptedRoundTripWithinLimit ==
    \A i \in 1..Len(goodSamples) :
        /\ goodSamples[i].trip >= 0
        /\ goodSamples[i].trip <= 20000
        /\ goodSamples[i].rtt = goodSamples[i].trip

\* After three replies, one with a negative round trip, one with 20001 and one
\* with exactly 20000 microseconds, only the last has been accepted.
C9_Witness ==
    /\ attempt = 3
    /\ Len(goodSamples) = 1
    /\ goodSamples[1].rtt = 20000
    /\ consecutiveSyncFailures_ = 0

----------------------------------------------------------------------------
(* Termination of the supervisor *)

\* The steps of each thread. The scheduler is fair to every thread that can
\* take a step; the command reader only moves when a line or the end of
\* standard input arrives, so nothing is assumed about it.
MainStep == MainWait \/ MainJoin \/ MainJoinSelect \/ MainStop \/ MainReturn

SensorStep(w) ==
    \/ SensorTop(w)
    \/ SensorSlow(w)
    \/ SensorBuild(w)
    \/ SensorPlayOk(w)
    \/ SensorPlayFails(w)
    \/ \E msg \in BOOLEAN : SensorPoll(w, msg)
    \/ SensorReread(w)
    \/ SensorTeardown(w)

PanoStep ==
    \/ PanoTop
    \/ PanoBuild
    \/ PanoParseFails
    \/ PanoPublish
    \/ PanoPlayOk
    \/ PanoPlayFails
    \/ \E msg \in BOOLEAN : PanoPoll(msg)
    \/ PanoReread
    \/ PanoTeardown
    \/ PanoStop

SelStep ==
    \/ SelStart
    \/ SelStartFails
    \/ \E b \in SelectInputs : SelRecv(b)
    \/ SelSwitch
    \/ SelLockPipelines
    \/ SelKeyFrame

Fairness ==
    /\ WF_vars(MainStep)
    /\ \A w \in Sensors : WF_vars(SensorStep(w))
    /\ WF_vars(PanoStep)
    /\ WF_vars(SelStep)

\* Every thread that was started has returned, and so has main.
AllTerminated ==
    /\ main_pc = "returned"
    /\ ctrl_pc = "done"
    /\ \A w \in Workers : wpc[w] \in {"idle", "done"}
    /\ sel_pc \in {"idle", "done"}

\* C10: once stop_requested is true (stop command or end of standard input),
\* every server thread eventually terminates and main returns, whatever state
\* the workers, the listener and the command reader were in.
C10_StopLeadsToTermination == stop_requested ~> AllTerminated

\* The same, for the runs in which no exception leaves RunPanoramicPipeline.
StopLeadsToTerminationOrAbort == stop_requested ~> (AllTerminated \/ aborted)

----------------------------------------------------------------------------
(* The period of the stop check *)

\* C11: every worker loop of the server tests stop_requested at least once every
\* 100 ms: no worker sleeps longer than that between two tests. backoff[w].ms is
\* the length of the uninterruptible sleep_for the worker made on its way back to
\* the loop head, where the next test is.
C11_StopCheckedEvery100ms ==
    \A w \in Workers : backoff[w].ms <= 100

----------------------------------------------------------------------------
(* Mono mode and the version-0 wait *)

\* C12: while the desired config's mode is Mono the sensor-1 worker never builds
\* or starts a pipeline: every step in which worker 1 creates its pipeline or
\* brings it to PLAYING is taken while desired_cfg.videoMode is not MONO, also
\* when the update to Mono arrives after the worker's snapshot.
C12_NoSensor1PipelineInMono ==
    [][(\/ pipeline[1] = 0 /\ pipeline'[1] # 0
        \/ gstState[1] # "PLAYING" /\ gstState'[1] = "PLAYING")
          => desired_cfg.videoMode # "MONO"]_vars

\* C13: while the config version is 0 no supervisor worker (sensor 0, sensor 1,
\* panoramic) builds a pipeline: none has a pipeline, published or not, none is
\* past its loop head, and the camera-select listener is not running.
C13_NoPipelineAtVersionZero ==
    cfg_version = 0 =>
        /\ \A w \in Workers :
              /\ pipeline[w] = 0
              /\ gstState[w] = "NONE"
              /\ wpc[w] \in {"idle", "top", "done"}
        /\ \A w \in Sensors : pipelines[w] = 0
        /\ panoramic_selector = 0

\* The server ran from start to exit at version 0: lines were read, the stop
\* arrived, main returned, and no worker was ever started.
C13_Witness ==
    /\ cfg_version = 0
    /\ stop_requested
    /\ main_pc = "returned"
    /\ \A w \in Workers : wpc[w] = "idle" /\ pipeline[w] = 0

----------------------------------------------------------------------------
(* The config cell *)

\* VR_App/include/types/camera_types.h: CameraResolution::getList, nHD to UHD.
ResolutionPresets ==
    {<<640, 360>>, <<960, 540>>, <<1024, 576>>, <<1280, 720>>, <<1600, 900>>,
     <<1920, 1080>>, <<2048, 1152>>, <<2560, 1440>>, <<3200, 1800>>, <<3840, 2160>>}

\* The data-model invariant of a StreamingConfig.
ValidConfig(c) ==
    /\ c.portLeft # c.portRight
    /\ c.fps >= 1 /\ c.fps <= 120
    /\ <<c.horizontalResolution, c.verticalResolution>> \in ResolutionPresets

\* C14: after any sequence of update commands the config held in the cell has
\* different ports, a frame rate within [1,120] and a resolution from the presets
\* table; an update that breaks this is not stored.
C14_StoredConfigIsValid == cfg_version > 0 => ValidConfig(desired_cfg)

\* An update command whose config ConfigFromJson accepts.
ProcessedUpdate(line) == line.kind = "update" /\ ConfigFromJson(line.config).ok

\* C15: the config version never decreases; it grows by exactly 1 with each
\* processed update command and by nothing else; desired_cfg changes only in the
\* step that increments the version; and that step is the command reader's,
\* storing the config of a processed update: no worker, listener or main
\* variable changes in it.
C15_VersionCountsUpdates ==
    [][ /\ cfg_version' >= cfg_version
        /\ (cfg_version' # cfg_version \/ desired_cfg' # desired_cfg) =>
              /\ cfg_version' = cfg_version + 1
              /\ ctrl_pc = "read" /\ ctrl_pc' = "read"
              /\ \E line \in Lines :
                    ProcessedUpdate(line) /\ desired_cfg' = ConfigFromJson(line.config).out
              /\ UNCHANGED <<workerVars, listenerVars, selectorVars, lockVars,
                             pipelines, main_pc, stop_requested>>
      ]_vars

\* Two updates have been processed, the second one storing the same mode and
\* codec with another quality.
C15_Witness ==
    /\ cfg_version = 2
    /\ desired_cfg = CfgQuality
    /\ ctrl_pc = "read"

----------------------------------------------------------------------------
(* The command reader, with the lines it has read *)

\* One line read and handled, recorded in read_lines.
ControlRead(line) ==
    /\ Len(read_lines) < MaxLines
    /\ ControlLoopBody(line)
    /\ read_lines' = Append(read_lines, line)
    /\ UNCHANGED nonCtlVars

ControlNext ==
    \/ \E line \in Lines : ControlRead(line)
    \/ ControlEof

\* A line that is not valid JSON, an update that lacks a required config key, and
\* updates with an unknown codec label or an unknown video-mode label.
Malformed(line) ==
    \/ line.kind = "garbage"
    \/ /\ line.kind = "update"
       /\ \/ ConfigKeys \ DOMAIN line.config # {}
          \/ line.config.codec \notin {"JPEG", "VP8", "VP9", "H264", "H265"}
          \/ line.config.videoMode \notin {"stereo", "mono", "panoramic"}

\* C16: a command line that is not valid JSON, lacks a required config key, or
\* carries an unknown codec or video-mode label is rejected cleanly: desired_cfg
\* and cfg_version stay as they are, stop_requested is not set, no worker,
\* listener or main variable changes, and the command reader stays in its loop
\* for the next line.
C16_MalformedLineRejected ==
    [][(Len(read_lines') = Len(read_lines) + 1
        /\ Malformed(read_lines'[Len(read_lines')])) =>
            /\ UNCHANGED <<cellVars, stop_requested, workerVars, listenerVars,
                           selectorVars, lockVars, pipelines, main_pc, aborted>>
            /\ ctrl_pc = "read" /\ ctrl_pc' = "read"]_vars

\* An update, then a line with an unknown codec label, then another update: the
\* two updates were stored, the line between them changed nothing.
C16_Witness ==
    /\ Len(read_lines) = 3
    /\ read_lines[1] = [kind |-> "update", config |-> JsonOf(DEFAULT_STREAMING_CONFIG)]
    /\ read_lines[2] = [kind |-> "update", config |-> BadCodecJson]
    /\ read_lines[3] = [kind |-> "update", config |-> JsonOf(CfgQuality)]
    /\ cfg_version = 2
    /\ desired_cfg = CfgQuality
    /\ ctrl_pc = "read"
    /\ ~stop_requested

----------------------------------------------------------------------------
(* VR_App: CameraStats (camera_types.h, camera_stats.cpp) and the client's
   latency probes (gstreamer_player.cpp) *)

\* The eight stage latencies, and the members of CameraStats the probes write.
\* The members they never write (fps, the two double timestamps, presentation,
\* frameReadyTimestamp) and packetsPerFrame are left out.
StageFields == {"camera", "vidConv", "enc", "rtpPay", "udpStream", "rtpDepay", "dec",
                "queue"}
StatsFields == StageFields \cup {"frameId", "totalLatency", "rtpPayTimestamp",
                                 "udpSrcTimestamp", "rtpDepayTimestamp",
                                 "decTimestamp", "queueTimestamp"}

HISTORY_SIZE == 50

\* uint64_t addition.
UAdd(a, b) == (a + b) % WordModulus

\* stats->camera + stats->vidConv + ... + stats->queue
StageSum(s) ==
    UAdd(UAdd(UAdd(UAdd(UAdd(UAdd(UAdd(s.camera, s.vidConv), s.enc), s.rtpPay),
                        s.udpStream), s.rtpDepay), s.dec), s.queue)

\* CameraStats::snapshot: a copy of the members.
snapshot(s) == s

\* updateHistory without the eviction.
updateHistoryNoEviction(h, snap) == Append(h, snap)

\* CameraStats::updateHistory: push_back, then pop_front once the size exceeds
\* HISTORY_SIZE.
updateHistory(h, snap) ==
    IF Len(Append(h, snap)) > HISTORY_SIZE THEN Tail(Append(h, snap)) ELSE Append(h, snap)

\* avg.f += snap.f over the first n snapshots of h.
RECURSIVE SumTo(_, _, _)
SumTo(h, f, n) == IF n = 0 THEN 0 ELSE UAdd(SumTo(h, f, n - 1), h[n][f])

\* CameraStats::averagedSnapshot: the current values for an empty history;
\* otherwise each stage latency and totalLatency summed over the history and
\* divided by its size (unsigned integer division), the other members from the
\* latest snapshot.
averagedSnapshot(h, s) ==
    IF h = <<>> THEN snapshot(s)
    ELSE [f \in StatsFields |->
             IF f \in StageFields \cup {"totalLatency"}
             THEN SumTo(h, f, Len(h)) \div Len(h)
             ELSE h[Len(h)][f]]

\* What the header extensions of a frame's packet carry: the server's four stage
\* latencies and, through rtpPayTimestamp, how far the client's clock at arrival
\* is ahead of the server's stamp (lag; negative when the server's clock is
\* ahead).
SteadyHeader == [camera |-> 1, vidConv |-> 1, enc |-> 1, rtpPay |-> 1, lag |-> 1]
RtpHeaders ==
    {SteadyHeader,
     [camera |-> 2, vidConv |-> 2, enc |-> 1, rtpPay |-> 1, lag |-> 1],
     [camera |-> 1, vidConv |-> 1, enc |-> 1, rtpPay |-> 1, lag |-> -1]}

\* Microseconds between two probes of a frame.
ClientDts == {1, 2}

\* What onRtpHeaderMetadata writes for a packet that carries the six extensions,
\* the frame id among them.
RtpHeaderMetadata(s, id, header, t) ==
    [s EXCEPT
        !.totalLatency = 0,
        !.frameId = id,
        !.camera = header.camera,
        !.vidConv = header.vidConv,
        !.enc = header.enc,
        !.rtpPay = header.rtpPay,
        !.rtpPayTimestamp = t - header.lag,
        !.udpSrcTimestamp = t,
        !.udpStream = USub(t, t - header.lag)]

\* What onIdentityHandoff writes at each of its three probes.
IdentityHandoff(s, name, t) ==
    IF name = "rtpdepay_ident"
    THEN [s EXCEPT !.rtpDepayTimestamp = t,
                   !.rtpDepay = USub(t, s.udpSrcTimestamp)]
    ELSE IF name = "dec_ident"
    THEN [s EXCEPT !.decTimestamp = t,
                   !.dec = USub(t, s.rtpDepayTimestamp)]
    ELSE IF name = "queue_ident"
    THEN [s EXCEPT !.queueTimestamp = t,
                   !.queue = USub(t, s.decTimestamp),
                   !.totalLatency = StageSum([s EXCEPT !.queue = USub(t, s.decTimestamp)])]
    ELSE s

\* onRtpHeaderMetadata at udpsrc_ident, for a packet that carries the six
\* extensions (one packet per frame).
onRtpHeaderMetadata(hdr) ==
    /\ st_pc = "udpsrc_ident"
    /\ st_frames < MaxClientFrames
    /\ st_frames < MaxVaried \/ hdr = SteadyHeader
    /\ st_now' = st_now + 1
    /\ stats' = RtpHeaderMetadata(stats, st_frames + 1, hdr, st_now')
    /\ st_pc' = "rtpdepay_ident"
    /\ UNCHANGED <<history_, st_frames>>
    /\ UNCHANGED nonStatsVars

\* onIdentityHandoff at rtpdepay_ident, dec_ident and queue_ident; at the last
\* one the total is summed and updateHistory is called.
onIdentityHandoff(name, dt) ==
    /\ st_pc = name
    /\ (st_frames < MaxVaried /\ name = "queue_ident") \/ dt = 1
    /\ st_now' = st_now + dt
    /\ stats' = IdentityHandoff(stats, name, st_now')
    /\ IF name = "rtpdepay_ident"
       THEN /\ st_pc' = "dec_ident"
            /\ UNCHANGED <<history_, st_frames>>
       ELSE IF name = "dec_ident"
       THEN /\ st_pc' = "queue_ident"
            /\ UNCHANGED <<history_, st_frames>>
       ELSE /\ history_' = updateHistory(history_, snapshot(stats'))
            /\ st_frames' = st_frames + 1
            /\ st_pc' = "udpsrc_ident"
    /\ UNCHANGED nonStatsVars

StatsNext ==
    \/ \E hdr \in RtpHeaders : onRtpHeaderMetadata(hdr)
    \/ \E name \in {"rtpdepay_ident", "dec_ident", "queue_ident"}, dt \in ClientDts :
          onIdentityHandoff(name, dt)

\* C17: for one CameraStats record, after any sequence of updateHistory() calls
\* the history holds at most 50 snapshots and at least one once a frame has been
\* recorded; it holds the latest min(n, 50) of the n snapshots pushed, in order,
\* so that a push onto a full history evicts exactly the oldest one.
C17_HistoryBounded ==
    /\ Len(history_) <= 50
    /\ st_frames > 0 => Len(history_) >= 1
    /\ Len(history_) = IF st_frames < 50 THEN st_frames ELSE 50
    /\ \A i \in 1..Len(history_) :
          history_[i].frameId = st_frames - Len(history_) + i

\* Two snapshots have been pushed onto a full history: the two oldest are gone.
C17_Witness ==
    /\ st_frames = 52
    /\ Len(history_) = 50
    /\ history_[1].frameId = 3
    /\ history_[50].frameId = 52

\* C18: for every non-empty history, the totalLatency of averagedSnapshot()
\* equals the sum of its eight averaged stage fields camera, vidConv, enc,
\* rtpPay, udpStream, rtpDepay, dec and queue, in the code's unsigned arithmetic.
C18_AveragedTotalIsSumOfStages ==
    history_ # <<>> =>
        averagedSnapshot(history_, stats).totalLatency
            = StageSum(averagedSnapshot(history_, stats))

----------------------------------------------------------------------------
(* VR_App: the telemetry listener, SchemaRegistry and ParsedMessage
   (ros_network_gateway_client.h, ros_network_gateway_client.cpp) *)

\* A JSON value (nlohmann::json): null, a number, a string, an array of values
\* or an object, whose members are kept in key order as <<key, value>> pairs.
JNull == [t |-> "null", n |-> 0, s |-> "", a |-> <<>>, m |-> <<>>]
JNum(x) == [t |-> "number", n |-> x, s |-> "", a |-> <<>>, m |-> <<>>]
JStr(x) == [t |-> "string", n |-> 0, s |-> x, a |-> <<>>, m |-> <<>>]
JArr(elements) == [t |-> "array", n |-> 0, s |-> "", a |-> elements, m |-> <<>>]
JObj(members) == [t |-> "object", n |-> 0, s |-> "", a |-> <<>>, m |-> members]

\* json::contains(key): false for a value that is not an object.
contains(j, key) == j.t = "object" /\ \E i \in 1..Len(j.m) : j.m[i][1] = key

\* json::at(key) for a key the object contains.
at(j, key) == j.m[CHOOSE i \in 1..Len(j.m) : j.m[i][1] = key][2]

is_array(j) == j.t = "array"

\* json::empty()
empty(j) ==
    \/ j.t = "null"
    \/ j.t = "array" /\ j.a = <<>>
    \/ j.t = "object" /\ j.m = <<>>

\* What a range-for over a json value visits: the elements of an array, the
\* member values of an object, nothing for null, the value itself otherwise.
Elements(j) ==
    IF j.t = "array" THEN j.a
    ELSE IF j.t = "object" THEN [i \in 1..Len(j.m) |-> j.m[i][2]]
    ELSE IF j.t = "null" THEN <<>>
    ELSE <<j>>

\* json::get<T>() for T a number type, std::string or json itself: a type_error
\* unless the value has that type.
Targets == {"number", "string", "json"}
GetAs(T, j) == T = "json" \/ j.t = T

\* A payload is the text after the header: a JSON document or something
\* json::parse throws on.
Text(doc) == [text |-> "json", doc |-> doc]
Garbage == [text |-> "garbage", doc |-> JNull]
parse(payload) == [ok |-> payload.text = "json", j |-> payload.doc]

\* MessageSchema, and the absence of an entry in registry_.
NoSchema == [has |-> FALSE, type |-> "", definition |-> JNull]
MessageSchema(type, definition) == [has |-> TRUE, type |-> type, definition |-> definition]

\* registerIfSchema with the test for the key namespace left out.
registerIfSchemaTwoKeys(registry, type, payload) ==
    IF /\ parse(payload).ok
       /\ contains(parse(payload).j, "fields")
       /\ contains(parse(payload).j, "name")
    THEN [ret |-> TRUE,
          registry |-> [registry EXCEPT ![type] = MessageSchema(type, parse(payload).j)]]
    ELSE [ret |-> FALSE, registry |-> registry]

\* SchemaRegistry::registerIfSchema: what it returns and the registry it leaves.
\* The parse error is caught inside.
registerIfSchema(registry, type, payload) ==
    IF /\ parse(payload).ok
       /\ contains(parse(payload).j, "fields")
       /\ contains(parse(payload).j, "namespace")
       /\ contains(parse(payload).j, "name")
    THEN [ret |-> TRUE,
          registry |-> [registry EXCEPT ![type] = MessageSchema(type, parse(payload).j)]]
    ELSE [ret |-> FALSE, registry |-> registry]

hasSchema(registry, type) == registry[type].has

\* std::string name = field["name"] on one const element of the schema's
\* fields: a type_error for an element that is not an object or whose name is
\* not a string; undefined for an object without the key (const operator[]).
FieldName(field) ==
    IF field.t # "object" THEN "throws"
    ELSE IF ~contains(field, "name") THEN "undefined"
    ELSE IF at(field, "name").t # "string" THEN "throws"
    ELSE "ok"

\* The validation loop of buildParsedMessage: it ends at the first element that
\* does not yield a name.
Validation(definition) ==
    LET fields == Elements(at(definition, "fields"))
        bad == {i \in 1..Len(fields) : FieldName(fields[i]) # "ok"}
    IN  IF bad = {} THEN "ok"
        ELSE FieldName(fields[CHOOSE i \in bad : \A k \in bad : i <= k])

\* value = value.at(0) for an array of size 1.
Unwrap(value) == IF is_array(value) /\ Len(value.a) = 1 THEN value.a[1] ELSE value

\* The unwrapping loop of buildParsedMessage over j.items().
UnwrapItems(j) ==
    IF j.t = "object" THEN JObj([i \in 1..Len(j.m) |-> <<j.m[i][1], Unwrap(j.m[i][2])>>])
    ELSE IF j.t = "array" THEN JArr([i \in 1..Len(j.a) |-> Unwrap(j.a[i])])
    ELSE j

NoParsedMessage ==
    [built |-> FALSE, type |-> "", topic |-> "", schema |-> JNull, data |-> JNull,
     payload |-> JNull]
ParsedMessage(type, topic, schema, data, payload) ==
    [built |-> TRUE, type |-> type, topic |-> topic, schema |-> schema, data |-> data,
     payload |-> payload]

\* SchemaRegistry::buildParsedMessage: the outcomes a build can have. It throws
\* without a schema, on a payload that does not parse and from the validation
\* loop; where the loop's behaviour is undefined the process may abort, throw or
\* go on.
buildParsedMessage(registry, type, topic, payload) ==
    LET built == [kind |-> "built",
                  message |-> ParsedMessage(type, topic, registry[type].definition,
                                            UnwrapItems(parse(payload).j),
                                            parse(payload).j)]
        throws == [kind |-> "threw", message |-> NoParsedMessage]
        aborts == [kind |-> "aborted", message |-> NoParsedMessage]
    IN  IF ~hasSchema(registry, type) \/ ~parse(payload).ok THEN {throws}
        ELSE IF Validation(registry[type].definition) = "throws" THEN {throws}
        ELSE IF Validation(registry[type].definition) = "undefined"
             THEN {aborts, throws, built}
        ELSE {built}

\* A field path is the string cut at its dots: each dot and each stretch between
\* dots is one element. std::getline(ss, part, '.') over it: an empty part before
\* a leading dot and between two dots, none after a trailing dot.
RECURSIVE GetlineParts(_)
GetlineParts(field) ==
    IF field = <<>> THEN <<>>
    ELSE IF field[1] = "." THEN <<"">> \o GetlineParts(Tail(field))
    ELSE IF Len(field) = 1 THEN <<field[1]>>
    ELSE <<field[1]>> \o GetlineParts(SubSeq(field, 3, Len(field)))

\* The walk of ParsedMessage::get along the parts: a missing part throws; after
\* each step a non-empty array is replaced by its first element.
RECURSIVE Walk(_, _)
Walk(cursor, parts) ==
    IF parts = <<>> THEN [found |-> TRUE, cursor |-> cursor]
    ELSE IF ~contains(cursor, parts[1]) THEN [found |-> FALSE, cursor |-> JNull]
    ELSE Walk(IF is_array(at(cursor, parts[1])) /\ ~empty(at(cursor, parts[1]))
              THEN at(cursor, parts[1]).a[1]
              ELSE at(cursor, parts[1]),
              Tail(parts))

NoGet == [called |-> FALSE, field |-> <<>>, T |-> "", ok |-> FALSE, value |-> JNull]
Returned(field, T, value) ==
    [called |-> TRUE, field |-> field, T |-> T, ok |-> TRUE, value |-> value]
Thrown(field, T) ==
    [called |-> TRUE, field |-> field, T |-> T, ok |-> FALSE, value |-> JNull]

\* ParsedMessage::get<T>(field) on the data of a message.
get(data, field, T) ==
    LET walk == Walk(data, GetlineParts(field))
    IN  IF ~walk.found THEN Thrown(field, T)
        ELSE IF is_array(walk.cursor)
             THEN IF empty(walk.cursor) THEN Thrown(field, T)
                  ELSE IF GetAs(T, walk.cursor.a[1])
                       THEN Returned(field, T, walk.cursor.a[1])
                       ELSE Thrown(field, T)
        ELSE IF GetAs(T, walk.cursor) THEN Returned(field, T, walk.cursor)
        ELSE Thrown(field, T)

\* The datagrams of the runs: message types, topics, schema documents and data
\* payloads.
MessageTypes == {"std_msgs/Float32", "rosgraph_msgs/Clock"}
Topics == {"/loki_1/chassis/battery_voltage", "/loki_1/chassis/clock", "/other"}

FieldDecl(name, type) == JObj(<< <<"name", JStr(name)>>, <<"type", JStr(type)>> >>)
SchemaFloat32 ==
    JObj(<< <<"fields", JArr(<<FieldDecl("data", "float32")>>)>>,
            <<"name", JStr("Float32")>>,
            <<"namespace", JStr("std_msgs")>> >>)
SchemaClock ==
    JObj(<< <<"fields", JArr(<<FieldDecl("clock", "builtin_interfaces/Time")>>)>>,
            <<"name", JStr("Clock")>>,
            <<"namespace", JStr("rosgraph_msgs")>> >>)
\* a field entry without a name
SchemaUnnamedField ==
    JObj(<< <<"fields", JArr(<<JObj(<< <<"type", JStr("float32")>> >>)>>)>>,
            <<"name", JStr("Float32")>>,
            <<"namespace", JStr("std_msgs")>> >>)
\* the fields given as a map from name to type
SchemaFieldMap ==
    JObj(<< <<"fields", JObj(<< <<"data", JStr("float32")>> >>)>>,
            <<"name", JStr("Float32")>>,
            <<"namespace", JStr("std_msgs")>> >>)
\* two of the three keys; the three keys one level down
TwoKeys ==
    JObj(<< <<"fields", JArr(<<FieldDecl("data", "float32")>>)>>,
            <<"name", JStr("Float32")>> >>)
NestedKeys == JObj(<< <<"msg", SchemaFloat32>> >>)

DataDocuments ==
    {JObj(<< <<"data", JNum(5)>> >>),
     JObj(<< <<"data", JArr(<<JNum(5)>>)>> >>),
     JObj(<< <<"data", JArr(<<JStr("x")>>)>> >>),
     JObj(<< <<"data", JArr(<<JArr(<<JNum(5)>>)>>)>> >>),
     JObj(<< <<"data", JArr(<<JArr(<<JNum(5), JNum(6)>>)>>)>> >>),
     JObj(<< <<"data", JArr(<<JNum(5), JNum(6)>>)>> >>),
     JObj(<< <<"data", JArr(<<>>)>> >>),
     JObj(<< <<"clock", JObj(<< <<"nanosec", JArr(<<JNum(0)>>)>>,
                                <<"sec", JArr(<<JNum(7)>>)>> >>)>> >>),
     JObj(<< <<"clock", JArr(<<JObj(<< <<"nanosec", JNum(0)>>,
                                       <<"sec", JNum(7)>> >>)>>)>> >>)}

Payloads ==
    {Garbage} \cup
    {Text(doc) : doc \in {SchemaFloat32, SchemaClock, SchemaUnnamedField, SchemaFieldMap,
                          TwoKeys, NestedKeys} \cup DataDocuments}

\* A datagram after parseMessage: whether the header could be read, the
\* compressed flag, topic, type and payload.
Datagram(header, compressed, topic, type, payload) ==
    [header |-> header, compressed |-> compressed, topic |-> topic, type |-> type,
     payload |-> payload]
Datagrams ==
    {Datagram("ok", FALSE, topic, type, payload) :
        topic \in Topics, type \in MessageTypes, payload \in Payloads}
    \cup {Datagram("truncated", FALSE, "", "", Garbage),
          Datagram("ok", TRUE, "/other", "std_msgs/Float32", Garbage)}

NoDatagram ==
    [datagram |-> Datagram("none", FALSE, "", "", Garbage), isSchema |-> FALSE,
     outcome |-> "none"]
Handled(datagram, isSchema, outcome) ==
    [datagram |-> datagram, isSchema |-> isSchema, outcome |-> outcome]

\* The get call the listener makes on a message of one of its two topics; an
\* exception of it is caught and logged.
ListenerGet(message) ==
    IF message.topic = "/loki_1/chassis/battery_voltage"
    THEN get(message.data, <<"data">>, "number")
    ELSE IF message.topic = "/loki_1/chassis/clock"
    THEN get(message.data, <<"clock", ".", "sec">>, "number")
    ELSE NoGet

\* One iteration of the loop of listenForMessages for a received datagram.
listenForMessages(datagram) ==
    /\ ros_pc = "listening"
    /\ IF datagram.header # "ok"
       THEN /\ ros_last' = Handled(datagram, FALSE, "header")
            /\ parsed' = NoParsedMessage
            /\ got' = NoGet
            /\ UNCHANGED <<registry_, ros_pc>>
       ELSE IF datagram.compressed
       THEN /\ ros_last' = Handled(datagram, FALSE, "compressed")
            /\ parsed' = NoParsedMessage
            /\ got' = NoGet
            /\ UNCHANGED <<registry_, ros_pc>>
       ELSE LET reg == registerIfSchema(registry_, datagram.type, datagram.payload)
            IN  /\ registry_' = reg.registry
                /\ IF reg.ret
                   THEN /\ ros_last' = Handled(datagram, TRUE, "registered")
                        /\ parsed' = NoParsedMessage
                        /\ got' = NoGet
                        /\ UNCHANGED ros_pc
                   ELSE IF ~hasSchema(registry_, datagram.type)
                   THEN /\ ros_last' = Handled(datagram, FALSE, "skipped")
                        /\ parsed' = NoParsedMessage
                        /\ got' = NoGet
                        /\ UNCHANGED ros_pc
                   ELSE \E build \in buildParsedMessage(registry_, datagram.type,
                                                        datagram.topic, datagram.payload) :
                           /\ ros_last' = Handled(datagram, FALSE, build.kind)
                           /\ parsed' = build.message
                           /\ got' = IF build.kind = "built"
                                     THEN ListenerGet(build.message)
                                     ELSE NoGet
                           /\ ros_pc' = IF build.kind = "aborted"
                                        THEN "aborted"
                                        ELSE "listening"
    /\ UNCHANGED nonRosVars

\* The field paths and target types of the get calls made on a built message.
FieldPaths == {<<"data">>, <<"clock">>, <<"clock", ".", "sec">>, <<"voltage">>}

\* ParsedMessage::get<T>(field) on the message built last.
GetField(field, T) ==
    /\ ros_pc = "listening"
    /\ parsed.built
    /\ got' = get(parsed.data, field, T)
    /\ UNCHANGED <<registry_, parsed, ros_last, ros_pc>>
    /\ UNCHANGED nonRosVars

RosNext ==
    \/ \E datagram \in Datagrams : listenForMessages(datagram)
    \/ \E field \in FieldPaths, T \in Targets : GetField(field, T)

\* The payload has, at its top level, the field f holding a one-element array.
HoldsSingleton(doc, f) ==
    /\ contains(doc, f)
    /\ is_array(at(doc, f))
    /\ Len(at(doc, f).a) = 1

\* C19: for every type with a registered schema, a ParsedMessage is built from
\* (type, topic, payload), and get<T>(f) on a top-level field f whose payload
\* value is a one-element array [x], x of type T, returns x.
C19_GetUnwrapsSingleton ==
    /\ ros_last.outcome \in {"threw", "aborted"} /\ parse(ros_last.datagram.payload).ok
          => \A f \in {"data", "clock"} :
                ~HoldsSingleton(parse(ros_last.datagram.payload).j, f)
    /\ \A f \in {"data", "clock"} :
          /\ parsed.built
          /\ got.called
          /\ got.field = <<f>>
          /\ HoldsSingleton(parsed.payload, f)
          /\ GetAs(got.T, at(parsed.payload, f).a[1])
          => got.ok /\ got.value = at(parsed.payload, f).a[1]

\* The schema's fields are a list of objects that each carry a string name.
NamedFields(definition) ==
    /\ is_array(at(definition, "fields"))
    /\ Validation(definition) = "ok"

\* The unwrapping of a one-element array holds where the schema names its fields
\* and the element is a number or a string.
GetUnwrapsScalarUnderNamedFields ==
    /\ \A type \in MessageTypes :
          /\ ros_last.datagram.type = type
          /\ ros_last.outcome \in {"threw", "aborted"}
          /\ registry_[type].has
          /\ NamedFields(registry_[type].definition)
          => ~parse(ros_last.datagram.payload).ok
    /\ \A f \in {"data", "clock"} :
          /\ parsed.built
          /\ got.called
          /\ got.field = <<f>>
          /\ HoldsSingleton(parsed.payload, f)
          /\ at(parsed.payload, f).a[1].t \in {"number", "string"}
          /\ GetAs(got.T, at(parsed.payload, f).a[1])
          => got.ok /\ got.value = at(parsed.payload, f).a[1]

\* The payload is a JSON document with the three keys.
IsSchemaDocument(payload) ==
    /\ payload.text = "json"
    /\ payload.doc.t = "object"
    /\ {"fields", "namespace", "name"} \subseteq
           {payload.doc.m[i][1] : i \in 1..Len(payload.doc.m)}

\* C20: registerIfSchema(type, payload) returns true and stores the payload
\* under type if and only if the payload is a JSON document that contains the
\* three keys fields, namespace and name; otherwise, an unparseable payload
\* included, it returns false and the registry stays as it was. A datagram that
\* does not reach registerIfSchema leaves the registry as it was too.
C20_RegisterIffThreeKeys ==
    [][(ros_last' # ros_last \/ registry_' # registry_) =>
          IF ros_last'.outcome \in {"header", "compressed"}
          THEN registry_' = registry_
          ELSE /\ ros_last'.isSchema <=> IsSchemaDocument(ros_last'.datagram.payload)
               /\ IsSchemaDocument(ros_last'.datagram.payload) =>
                     registry_' = [registry_ EXCEPT
                                      ![ros_last'.datagram.type] =
                                          MessageSchema(ros_last'.datagram.type,
                                                        ros_last'.datagram.payload.doc)]
               /\ ~IsSchemaDocument(ros_last'.datagram.payload) =>
                     registry_' = registry_]_vars

\* A schema is stored for one type, and the datagram handled last, of the other
\* type, was refused: an unparseable payload.
C20_Witness ==
    /\ registry_["std_msgs/Float32"] = MessageSchema("std_msgs/Float32", SchemaFloat32)
    /\ ~registry_["rosgraph_msgs/Clock"].has
    /\ ros_last.datagram.type = "rosgraph_msgs/Clock"
    /\ ros_last.datagram.payload = Garbage
    /\ ~ros_last.isSchema
    /\ ros_last.outcome = "skipped"

----------------------------------------------------------------------------
(* VR_App: the client's streaming config, its REST client and its receive
   pipelines (app_state.h, enums.h, rest_client.cpp, program.cpp,
   gstreamer_player.cpp) *)

\* enum class Codec and the modes the client code names, in enum order.
ClientCodecs == <<"JPEG", "VP8", "VP9", "H264", "H265">>
VideoModes == <<"Stereo", "Mono", "Panoramic">>

IndexIn(list, x) == CHOOSE i \in 1..Len(list) : list[i] = x

\* CameraResolution::getList
ResolutionList ==
    << [width |-> 640, height |-> 360], [width |-> 960, height |-> 540],
       [width |-> 1024, height |-> 576], [width |-> 1280, height |-> 720],
       [width |-> 1600, height |-> 900], [width |-> 1920, height |-> 1080],
       [width |-> 2048, height |-> 1152], [width |-> 2560, height |-> 1440],
       [width |-> 3200, height |-> 1800], [width |-> 3840, height |-> 2160] >>
FHD == [width |-> 1920, height |-> 1080]

\* StreamingConfig{} of the client, with the defaults of config.h.
StreamingConfig ==
    [headset_ip |-> <<10, 0, 31, 220>>, portLeft |-> 8554, portRight |-> 8556,
     codec |-> "JPEG", encodingQuality |-> 60, bitrate |-> 4000000,
     resolution |-> FHD, videoMode |-> "Stereo", fps |-> 60]

\* What LoadAppState can return: the defaults with any codec the settings panel
\* offers and any mode.
LoadedConfigs ==
    {[StreamingConfig EXCEPT !.codec = codec, !.videoMode = mode] :
        codec \in {"JPEG", "H264", "H265"}, mode \in {"Stereo", "Mono", "Panoramic"}}

\* IpToString: the four numbers joined by dots.
IpToString(ip) ==
    IF Len(ip) # 4 THEN "0.0.0.0"
    ELSE ToString(ip[1]) \o "." \o ToString(ip[2]) \o "." \o ToString(ip[3])
         \o "." \o ToString(ip[4])

\* CodecToString of enums.h
ClientCodecToString(codec) ==
    IF codec \in {"JPEG", "VP8", "VP9", "H264", "H265"} THEN codec ELSE "Unknown"

\* The JSON body of StartStream (config = config_) and of UpdateStreamingConfig:
\* the address is always taken from config_.
RequestBody(stored, config) ==
    [bitrate |-> config.bitrate,
     codec |-> ClientCodecToString(config.codec),
     encoding_quality |-> config.encodingQuality,
     fps |-> config.fps,
     ip_address |-> IpToString(stored.headset_ip),
     port_left |-> config.portLeft,
     port_right |-> config.portRight,
     resolution |-> [height |-> config.resolution.height,
                     width |-> config.resolution.width],
     video_mode |-> IF config.videoMode = "Stereo" THEN "stereo" ELSE "mono"]

\* A response of httplib: none (connection error), or an HTTP status.
NoResponse == [connected |-> FALSE, status |-> 0]
Status(code) == [connected |-> TRUE, status |-> code]

\* StartStream and StopStream: 0 for a response with status 200, else -1.
StartStream(res) == IF ~res.connected THEN -1 ELSE IF res.status # 200 THEN -1 ELSE 0

\* StopStream that expects 204 No Content.
StopStreamNoContent(res) ==
    IF ~res.connected THEN -1 ELSE IF res.status # 204 THEN -1 ELSE 0

StopStream(res) == IF ~res.connected THEN -1 ELSE IF res.status # 200 THEN -1 ELSE 0

\* UpdateStreamingConfig: the return value and what config_ holds afterwards.
UpdateStreamingConfig(stored, config, res) ==
    IF ~res.connected THEN [ret |-> -1, config_ |-> stored]
    ELSE IF res.status # 200 THEN [ret |-> -1, config_ |-> stored]
    ELSE [ret |-> 0, config_ |-> config]

\* The REST front-end in front of the supervisor: it renames the keys of the body
\* to those of the command channel and hands the config on.
RestFrontEnd(body) ==
    [ip |-> body.ip_address, portLeft |-> body.port_left, portRight |-> body.port_right,
     codec |-> body.codec, encodingQuality |-> body.encoding_quality,
     bitrate |-> body.bitrate, horizontalResolution |-> body.resolution.width,
     verticalResolution |-> body.resolution.height, videoMode |-> body.video_mode,
     fps |-> body.fps]

\* Its answers: 200 to every stop, running or not; 200 to a start or update
\* whose config parses, 400 otherwise; 500 when it cannot serve the request.
NoStream ==
    [running |-> FALSE, delivered |-> FALSE, from |-> StreamingConfig,
     parsed |-> [ok |-> FALSE, out |-> ZeroConfig]]
ServeStop(srv) == [res |-> Status(200), srv |-> [srv EXCEPT !.running = FALSE]]
ServeConfig(srv, config, body) ==
    IF ConfigFromJson(RestFrontEnd(body)).ok
    THEN [res |-> Status(200),
          srv |-> [running |-> TRUE, delivered |-> TRUE, from |-> config,
                   parsed |-> ConfigFromJson(RestFrontEnd(body))]]
    ELSE [res |-> Status(400),
          srv |-> [srv EXCEPT !.delivered = TRUE, !.from = config,
                              !.parsed = ConfigFromJson(RestFrontEnd(body))]]
Unserved(srv) == {[res |-> NoResponse, srv |-> srv], [res |-> Status(500), srv |-> srv]}
Unreached(srv) == {[res |-> NoResponse, srv |-> srv]}

\* The last three calls of the REST client, each with whether the server was
\* streaming when the call was made.
RestCall(op, srv, res, ret) ==
    [op |-> op, streaming |-> srv.running, res |-> res, ret |-> ret]
Logged(log, call) == IF Len(log) = 3 THEN <<log[2], log[3], call>> ELSE Append(log, call)

\* CameraFrame{}: FHD, no buffer yet.
Eyes == {"first", "second"}
CameraFrame ==
    [frameWidth |-> FHD.width, frameHeight |-> FHD.height,
     memorySize |-> FHD.width * FHD.height * 3, allocated |-> 0, copied |-> 0]
NoPipelines == [pipelineLeft_ |-> FALSE, pipelineRight_ |-> FALSE, codec |-> "none"]

\* configurePipelines, the part on the CameraFrame pair: the new buffers are
\* allocated with the memorySize the frames have on entry, and memorySize is set
\* from the new resolution after that.
ConfiguredFrame(frame, config) ==
    [frameWidth |-> config.resolution.width,
     frameHeight |-> config.resolution.height,
     memorySize |-> config.resolution.width * config.resolution.height * 3,
     allocated |-> frame.memorySize,
     copied |-> 0]

\* configurePipelines, the pipelines: one for Mono and Panoramic, two for
\* Stereo; none is made for VP8 and VP9, and the call throws.
ConfiguredPipelines(config) ==
    IF config.codec \in {"JPEG", "H264", "H265"}
    THEN [pipelineLeft_ |-> TRUE,
          pipelineRight_ |-> ~(config.videoMode \in {"Mono", "Panoramic"}),
          codec |-> config.codec]
    ELSE NoPipelines

\* configurePipelines(threadPool, config) as a whole: buffers, a new CameraStats
\* record per eye, pipelines.
configurePipelines(config) ==
    /\ camPair' = [eye \in Eyes |-> ConfiguredFrame(camPair[eye], config)]
    /\ player' = ConfiguredPipelines(config)
    /\ stats' = [f \in StatsFields |-> 0]
    /\ history_' = <<>>
    /\ st_pc' = "udpsrc_ident"
    /\ st_frames' = 0
    /\ UNCHANGED st_now

\* One more step of the client, within the bound of a run.
ClientStep == cli_steps < MaxClientSteps /\ cli_steps' = cli_steps + 1

\* What a client action leaves alone besides statsVars.
nonClientVars == <<srvVars, hsVars, logVars, ntpVars, ctlVars, rosVars, flowVars, loopVars>>

\* InitializeStreaming: a RestClient on appState_->streamingConfig, StopStream
\* with its result ignored, StartStream, then configurePipelines whatever the
\* result.
InitializeStreaming ==
    /\ ClientStep
    /\ cli_pc = "created"
    /\ \E stop \in {ServeStop(rest_srv)} \cup Unreached(rest_srv) :
       \E start \in {ServeConfig(stop.srv, streamingConfig,
                                 RequestBody(streamingConfig, streamingConfig))}
                    \cup Unserved(stop.srv) :
          /\ rest_srv' = start.srv
          /\ rest_log' = Logged(Logged(rest_log,
                                       RestCall("stop", rest_srv, stop.res,
                                                StopStream(stop.res))),
                                RestCall("start", stop.srv, start.res,
                                         StartStream(start.res)))
          /\ cameraServer' = IF StartStream(start.res) # 0 THEN "Failed" ELSE "Connected"
          /\ accepted' = streamingConfig
    /\ configurePipelines(streamingConfig)
    /\ cli_pc' = IF ConfiguredPipelines(streamingConfig) = NoPipelines
                 THEN "crashed" ELSE "running"
    /\ UNCHANGED streamingConfig
    /\ UNCHANGED nonClientVars

\* The settings panel: the next codec, skipping VP8 and VP9.
CodecUp ==
    /\ ClientStep
    /\ cli_pc = "running"
    /\ LET next == ClientCodecs[((IndexIn(ClientCodecs, streamingConfig.codec) - 1 + 1
                                  + Len(ClientCodecs)) % Len(ClientCodecs)) + 1]
       IN  streamingConfig' =
               [streamingConfig EXCEPT
                   !.codec = IF next \in {"VP8", "VP9"} THEN "H264" ELSE next]
    /\ UNCHANGED <<cameraServer, cli_pc, rest_log, rest_srv, accepted, camPair, player>>
    /\ UNCHANGED nonCliVars

\* The settings panel: the next video mode.
VideoModeUp ==
    /\ ClientStep
    /\ cli_pc = "running"
    /\ streamingConfig' =
           [streamingConfig EXCEPT
               !.videoMode =
                   VideoModes[((IndexIn(VideoModes, streamingConfig.videoMode) - 1 + 1
                                + Len(VideoModes)) % Len(VideoModes)) + 1]]
    /\ UNCHANGED <<cameraServer, cli_pc, rest_log, rest_srv, accepted, camPair, player>>
    /\ UNCHANGED nonCliVars

\* The settings panel: the next larger and the next smaller resolution.
ResolutionStep(by) ==
    /\ ClientStep
    /\ cli_pc = "running"
    /\ LET index == IndexIn(ResolutionList, streamingConfig.resolution)
       IN  /\ index + by \in 1..Len(ResolutionList)
           /\ index + by - IndexIn(ResolutionList, FHD) \in -MaxResolutionSteps..MaxResolutionSteps
           /\ streamingConfig' =
                  [streamingConfig EXCEPT !.resolution = ResolutionList[index + by]]
    /\ UNCHANGED <<cameraServer, cli_pc, rest_log, rest_srv, accepted, camPair, player>>
    /\ UNCHANGED nonCliVars

\* The Apply button: configurePipelines for the edited config, then
\* UpdateStreamingConfig with it; config_ and the argument are the same object.
Apply ==
    /\ ClientStep
    /\ cli_pc = "running"
    /\ configurePipelines(streamingConfig)
    /\ \E update \in {ServeConfig(rest_srv, streamingConfig,
                                  RequestBody(streamingConfig, streamingConfig))}
                     \cup Unserved(rest_srv) :
          LET result == UpdateStreamingConfig(streamingConfig, streamingConfig, update.res)
          IN  /\ rest_srv' = update.srv
              /\ rest_log' = Logged(rest_log, RestCall("update", rest_srv, update.res, result.ret))
              /\ streamingConfig' = result.config_
              /\ cameraServer' = IF result.ret # 0 THEN "Failed" ELSE "Connected"
              /\ accepted' = IF result.ret = 0 THEN streamingConfig ELSE accepted
    /\ cli_pc' = IF ConfiguredPipelines(streamingConfig) = NoPipelines
                 THEN "crashed" ELSE "running"
    /\ UNCHANGED nonClientVars

\* newFrameCallback for a decoded sample of one eye: the software path (JPEG)
\* copies memorySize bytes to dataHandle; beyond the buffer the behaviour is
\* undefined, the process may go on or crash. The hardware path copies nothing.
newFrameCallback(eye) ==
    /\ ClientStep
    /\ cli_pc = "running"
    /\ IF eye = "first" THEN player.pipelineLeft_ ELSE player.pipelineRight_
    /\ IF player.codec = "JPEG"
       THEN /\ camPair' = [camPair EXCEPT ![eye].copied = camPair[eye].memorySize]
            /\ IF camPair[eye].memorySize > camPair[eye].allocated
               THEN cli_pc' \in {"running", "crashed"}
               ELSE cli_pc' = "running"
       ELSE UNCHANGED <<camPair, cli_pc>>
    /\ UNCHANGED <<streamingConfig, cameraServer, rest_log, rest_srv, accepted, player>>
    /\ UNCHANGED nonCliVars

\* ~TelepresenceProgram: StopStream if the camera server is Connected.
Destroy ==
    /\ ClientStep
    /\ cli_pc = "running"
    /\ IF cameraServer = "Connected"
       THEN \E stop \in {ServeStop(rest_srv)} \cup Unreached(rest_srv) :
               /\ rest_srv' = stop.srv
               /\ rest_log' = Logged(rest_log,
                                     RestCall("stop", rest_srv, stop.res,
                                              StopStream(stop.res)))
       ELSE UNCHANGED <<rest_srv, rest_log>>
    /\ cli_pc' = "destroyed"
    /\ UNCHANGED <<streamingConfig, cameraServer, accepted, camPair, player>>
    /\ UNCHANGED nonCliVars

\* The program is started again: LoadAppState, new CameraFrames, no pipelines.
Launch ==
    /\ ClientStep
    /\ cli_pc \in {"destroyed", "crashed"}
    /\ streamingConfig' \in LoadedConfigs
    /\ accepted' = streamingConfig'
    /\ cameraServer' = "Unknown"
    /\ camPair' = [eye \in Eyes |-> CameraFrame]
    /\ player' = NoPipelines
    /\ cli_pc' = "created"
    /\ UNCHANGED <<rest_log, rest_srv>>
    /\ UNCHANGED nonCliVars

ClientNext ==
    \/ InitializeStreaming
    \/ CodecUp
    \/ VideoModeUp
    \/ \E by \in {-1, 1} : ResolutionStep(by)
    \/ Apply
    \/ \E eye \in Eyes : newFrameCallback(eye)
    \/ Destroy
    \/ Launch

\* The StreamingConfig of the supervisor that a client config stands for.
ServerModeOf(mode) ==
    CASE mode = "Stereo" -> "STEREO" [] mode = "Mono" -> "MONO" [] OTHER -> "PANORAMIC"
ServerConfigOf(config) ==
    [ip |-> IpToString(config.headset_ip), portLeft |-> config.portLeft,
     portRight |-> config.portRight, codec |-> config.codec,
     encodingQuality |-> config.encodingQuality, bitrate |-> config.bitrate,
     horizontalResolution |-> config.resolution.width,
     verticalResolution |-> config.resolution.height,
     videoMode |-> ServerModeOf(config.videoMode), fps |-> config.fps]

\* C21: a well-formed config (codec JPEG, H264 or H265; mode Stereo, Mono or
\* Panoramic) that was serialised by the client and parsed by the supervisor is
\* parsed to the same config; a body with an unknown codec or mode label does not
\* parse.
C21_ConfigJsonRoundTrip ==
    /\ /\ rest_srv.delivered
       /\ rest_srv.from.codec \in {"JPEG", "H264", "H265"}
       /\ rest_srv.from.videoMode \in {"Stereo", "Mono", "Panoramic"}
       => /\ rest_srv.parsed.ok
          /\ rest_srv.parsed.out = ServerConfigOf(rest_srv.from)
    /\ \A body \in {[RequestBody(streamingConfig, streamingConfig) EXCEPT !.codec = "Unknown"],
                    [RequestBody(streamingConfig, streamingConfig) EXCEPT !.video_mode = "STEREO"]} :
          ~ConfigFromJson(RestFrontEnd(body)).ok

C23_UpdateReplacesSnapshotOnlyOn200 ==
    [][(/\ rest_log' # rest_log
        /\ rest_log'[Len(rest_log')].op = "update")
       => /\ (rest_log'[Len(rest_log')].ret = 0)
              <=> (rest_log'[Len(rest_log')].res = Status(200))
          /\ rest_log'[Len(rest_log')].ret = 0 => streamingConfig' = accepted'
          /\ rest_log'[Len(rest_log')].ret # 0 => streamingConfig' = accepted]_vars

\* C24: after configurePipelines each eye's buffer is allocated with memorySize
\* bytes, memorySize is width * height * 3 of the frame, and no copy of the
\* sample handoff is longer than the buffer.
C24_BufferHoldsMemorySize ==
    player # NoPipelines =>
        \A eye \in Eyes :
            /\ camPair[eye].allocated = camPair[eye].memorySize
            /\ camPair[eye].memorySize = camPair[eye].frameWidth * camPair[eye].frameHeight * 3
            /\ camPair[eye].copied <= camPair[eye].allocated

\* C38: the client rebuilds its receive pipelines for a config only after the PUT
\* update for that config succeeded: an update call that changes the pipelines has
\* returned success, and after one that failed the pipelines and frames are those
\* of the config the server accepted last.
C38_PipelinesRebuiltOnlyAfterAcceptedUpdate ==
    [][(/\ rest_log' # rest_log
        /\ rest_log'[Len(rest_log')].op = "update")
       => /\ player' # player => rest_log'[Len(rest_log')].ret = 0
          /\ rest_log'[Len(rest_log')].ret # 0 =>
                /\ player' = ConfiguredPipelines(accepted')
                /\ \A eye \in Eyes :
                      /\ camPair'[eye].frameWidth = accepted'.resolution.width
                      /\ camPair'[eye].frameHeight = accepted'.resolution.height]_vars

----------------------------------------------------------------------------
(* VR_App: the probes of one receive pipeline with several frames in flight.
   udpsrc_ident, rtpdepay_ident and dec_ident are called by the source's
   streaming thread, one frame after the other; the queue element ahead of
   queue_ident hands its frames on from a thread of its own. All four write the
   same CameraStats record. *)

\* The stage values of a frame that has only passed the udpsrc probe; -1 stands
\* for a stage the frame has not passed yet.
Arrived(s) ==
    [camera |-> s.camera, vidConv |-> s.vidConv, enc |-> s.enc, rtpPay |-> s.rtpPay,
     udpStream |-> s.udpStream, rtpDepay |-> -1, dec |-> -1, queue |-> -1,
     decTimestamp |-> -1]

\* The queue element: it takes a frame while it has room and hands frames on in
\* order.
QueueHasRoom == Len(fl_queue) < MaxQueued

\* What the probes leave alone besides statsVars and flowVars.
nonProbeVars == <<srvVars, hsVars, logVars, ntpVars, ctlVars, rosVars, cliVars, loopVars>>

\* onRtpHeaderMetadata for the packet of the next frame.
FlowRtpHeaderMetadata(hdr) ==
    /\ st_pc = "udpsrc_ident"
    /\ fl_sent < MaxFlowFrames
    /\ st_now' = st_now + 1
    /\ stats' = RtpHeaderMetadata(stats, fl_sent + 1, hdr, st_now')
    /\ fl_sent' = fl_sent + 1
    /\ fl_frame' = Append(fl_frame, Arrived(stats'))
    /\ st_pc' = "rtpdepay_ident"
    /\ UNCHANGED <<history_, st_frames, fl_queue>>
    /\ UNCHANGED nonProbeVars

\* onIdentityHandoff at rtpdepay_ident and dec_ident for the frame the source
\* thread is pushing; after dec_ident the frame is in the queue and the thread
\* takes the next packet.
FlowIdentityHandoff(name) ==
    /\ st_pc = name
    /\ name \in {"rtpdepay_ident", "dec_ident"}
    /\ name = "dec_ident" => QueueHasRoom
    /\ st_now' = st_now + 1
    /\ stats' = IdentityHandoff(stats, name, st_now')
    /\ IF name = "rtpdepay_ident"
       THEN /\ fl_frame' = [fl_frame EXCEPT ![fl_sent].rtpDepay = stats'.rtpDepay]
            /\ st_pc' = "dec_ident"
            /\ UNCHANGED fl_queue
       ELSE /\ fl_frame' = [fl_frame EXCEPT ![fl_sent].dec = stats'.dec,
                                            ![fl_sent].decTimestamp = stats'.decTimestamp]
            /\ fl_queue' = Append(fl_queue, fl_sent)
            /\ st_pc' = "udpsrc_ident"
    /\ UNCHANGED <<history_, st_frames, fl_sent>>
    /\ UNCHANGED nonProbeVars

\* onIdentityHandoff at queue_ident for the oldest frame in the queue, on the
\* queue's thread: queue, totalLatency, updateHistory.
FlowQueueHandoff ==
    /\ fl_queue # <<>>
    /\ st_now' = st_now + 1
    /\ stats' = IdentityHandoff(stats, "queue_ident", st_now')
    /\ history_' = updateHistory(history_, snapshot(stats'))
    /\ st_frames' = st_frames + 1
    /\ fl_frame' = [fl_frame EXCEPT
                       ![Head(fl_queue)].queue =
                           USub(st_now', fl_frame[Head(fl_queue)].decTimestamp)]
    /\ fl_queue' = Tail(fl_queue)
    /\ UNCHANGED <<st_pc, fl_sent>>
    /\ UNCHANGED nonProbeVars

FlowNext ==
    \/ \E hdr \in RtpHeaders : FlowRtpHeaderMetadata(hdr)
    \/ \E name \in {"rtpdepay_ident", "dec_ident"} : FlowIdentityHandoff(name)
    \/ FlowQueueHandoff

\* C25: every snapshot in the history holds, in each of its eight stage fields,
\* the value of the frame its frameId names: the server's four and udpStream as
\* that frame's packet carried them, rtpDepay, dec and queue as measured for that
\* frame.
C25_SnapshotStagesBelongToItsFrame ==
    \A i \in 1..Len(history_) :
        /\ history_[i].frameId \in 1..Len(fl_frame)
        /\ \A stage \in StageFields :
              history_[i][stage] = fl_frame[history_[i].frameId][stage]

----------------------------------------------------------------------------
(* Claims on the frame ids of one flow (logging.h) *)

\* The packets of frame f that were stamped, and the frame id the first of them
\* carries.
StampedPackets(f) == {k \in 1..Len(sent[f]) : sent[f][k].stamped}
FirstStamped(f) == CHOOSE k \in StampedPackets(f) : \A j \in StampedPackets(f) : k <= j

\* C26: of two successive frames of a flow that were both stamped, the later one
\* carries the earlier one's frame id plus one, so the ids on the wire are
\* strictly increasing.
C26_FrameIdsIncreaseByOne ==
    \A f \in Frames :
        /\ f + 1 \in Frames
        /\ StampedPackets(f) # {}
        /\ StampedPackets(f + 1) # {}
        => FrameIdAt(f + 1, FirstStamped(f + 1)) = FrameIdAt(f, FirstStamped(f)) + 1

----------------------------------------------------------------------------
(* Claims on the slow-retry mode and on failures while streaming *)

\* C27: a sensor worker that has failed 5 times in a row keeps attempting to
\* build its pipeline, one attempt per 10 s sleep: from the sleep of slow-retry
\* mode it gets to a build attempt, unless the process is stopped.
C27_SlowRetryKeepsAttempting ==
    \A w \in Sensors :
        (wpc[w] = "slow") ~> (wpc[w] = "build" \/ stop_requested \/ aborted)

\* C27 as the code has it: a sensor worker whose counter has reached 5 makes no
\* build attempt; it sleeps 10 s per pass of its loop, and its counter changes
\* only at the end of such a sleep, to 0, when the config version differs from
\* the one the worker saw last; every backoff it then takes follows from the
\* new count.
C27_SlowRetryWaitsForVersionChange ==
    [][\A w \in Sensors :
          /\ wpc'[w] = "build" => consecutive_failures'[w] < MAX_CONSECUTIVE_FAILURES
          /\ (/\ consecutive_failures[w] >= MAX_CONSECUTIVE_FAILURES
              /\ consecutive_failures'[w] # consecutive_failures[w])
             => /\ wpc[w] = "slow"
                /\ cfg_version # seen_version[w]
                /\ consecutive_failures'[w] = 0
          /\ (wpc[w] = "top" /\ wpc'[w] = "slow")
             => consecutive_failures[w] >= MAX_CONSECUTIVE_FAILURES
          /\ (backoff'[w] # backoff[w] /\ backoff'[w].path \in {"build", "play", "stream"})
             => /\ consecutive_failures'[w] >= 1
                /\ backoff'[w].ms = BackoffMs(consecutive_failures'[w])]_vars

\* a worker asleep in slow-retry mode while an update it has not seen is stored
C27_Witness ==
    \E w \in Sensors :
        /\ wpc[w] = "slow"
        /\ consecutive_failures[w] = MAX_CONSECUTIVE_FAILURES
        /\ cfg_version # seen_version[w]

\* C28: Error/EOS during streaming counts as a consecutive failure. While the
\* first config, a Mono one, is the only one stored, every failure so far is
\* one of sensor worker 0 with no config change in between, so the count behind
\* its backoff after an Error/EOS is the number of failures so far, and the
\* backoff is the one of that count.
C28_StreamingFailuresAccumulate ==
    (/\ cfg_version = 1
     /\ desired_cfg.videoMode = "MONO"
     /\ backoff[0].path = "stream")
    => /\ backoff[0].failures = faults
       /\ backoff[0].ms = BackoffMs(faults)

----------------------------------------------------------------------------
(* Claims on build failures and on the mode the workers follow *)

\* C29: a build failure stays inside the worker it happens in: the process is
\* not terminated by it, and a sensor worker whose build has thrown is back at
\* the head of its loop with its backoff taken.
C29_BuildFailureStaysInWorker ==
    /\ ~aborted
    /\ \A w \in Sensors : backoff[w].path = "build" => wpc[w] = "top"

\* C30: the pipelines follow the current mode whatever the first config was: no
\* sensor worker builds a pipeline from a Panoramic config, and once main has
\* started its threads, a stored Stereo config finds the two sensor workers
\* running and a stored Panoramic config the panoramic worker.
C30_PipelinesFollowCurrentMode ==
    /\ \A w \in Sensors : wpc[w] = "play" => read_cfg[w].videoMode # "PANORAMIC"
    /\ (main_pc \in {"pano", "join"} /\ ~stop_requested /\ ~aborted)
       => /\ desired_cfg.videoMode = "STEREO" => \A w \in Sensors : wpc[w] # "idle"
          /\ desired_cfg.videoMode = "PANORAMIC" => wpc[PANO] # "idle"

----------------------------------------------------------------------------
(* Properties of the camera-select listener and the panoramic worker *)

\* The panoramic pipeline is running: it is Playing and its selector is cached.
PanoRunning ==
    /\ gstState[PANO] = "PLAYING"
    /\ panoramic_selector # 0

\* C31: whenever the panoramic pipeline is running, a select datagram carrying an
\* active camera index c leaves the selector's active pad on the pad mapped to c,
\* over every sequence of select datagrams and rebuilds (a rebuild puts the
\* selector back on its default pad): a datagram the listener drops as naming the
\* camera it believes current finds the selector on that camera's pad.
C31_SelectLeavesMappedPad ==
    \A c \in {0, 1, 5} :
        (/\ ~aborted
         /\ PanoRunning
         /\ sel_pc = "loop"
         /\ ~stop_requested
         /\ c = current_camera)
        => active_pad = PadIndexOf(c)

\* The worker whose pipeline is in its pipelines[] entry: the entry was written for
\* the pipeline the worker holds now and StopPipeline has not been called on it.
\* (The panoramic worker writes pipelines[0] after it cached the selector and
\* clears it after StopPipeline; a sensor worker writes its entry after the build.)
Published(w) ==
    IF w = PANO THEN wpc[w] \in {"play", "poll", "reread", "teardown", "stop"}
    ELSE wpc[w] \in {"play", "poll", "reread", "teardown"}

\* C32: the camera-switch path and the panoramic rebuild path exclude each other:
\* the listener sets the active pad only on a selector the worker still holds, and
\* sends the key-frame event only to a pipeline that the worker has not stopped.
C32_SwitchPathUsesLiveObjects ==
    [][/\ (sel_pc = "switch" /\ sel_pc' = "lockpipelines")
          => /\ panoramic_selector # 0
             /\ wpc[PANO] \in {"publish", "play", "poll", "reread", "teardown"}
       /\ (sel_pc = "keyframe" /\ sel_pc' = "loop"
           /\ desired_cfg.codec \in {"H264", "H265"})
          => /\ pipelines[0] = pipeline[PANO]
             /\ Published(PANO)]_vars

\* C33: every non-null entry of pipelines[] is a pipeline that StopPipeline has not
\* been called on: a worker that stops its pipeline clears its entry, on the
\* failed-Playing paths too.
C33_TableEntriesAreLive ==
    \A i \in Sensors :
        pipelines[i] # 0 =>
            \A w \in Workers :
                (pipelines[i] = (IF w = PANO THEN PanoHandle ELSE w + 1))
                => gstState[w] # "RELEASED"

\* A worker is active: its thread runs (a sensor worker is one the scheduler runs)
\* and the mode test of its own loop lets it build (sensor 1 sleeps in Mono mode,
\* the panoramic worker in every mode but Panoramic).
ActiveWorker(w) ==
    /\ wpc[w] \notin {"idle", "done"}
    /\ IF w = PANO THEN desired_cfg.videoMode = "PANORAMIC"
       ELSE w \in sched /\ ~(desired_cfg.videoMode = "MONO" /\ w = 1)

\* The config a worker has cached for its pipeline: current_configs[sensorId], or
\* the local cfg of the panoramic worker.
CachedConfig(w) == IF w = PANO THEN pano_cfg ELSE current_configs[w]

\* Every active worker streams with the desired config as its cached config.
AllStreamDesired ==
    \A w \in Workers :
        ActiveWorker(w) =>
            /\ wpc[w] = "poll"
            /\ gstState[w] = "PLAYING"
            /\ CachedConfig(w) = desired_cfg

\* The supervisor in the runs in which pipelines start and stream: no Playing
\* transition fails, gst_parse_launch returns a pipeline, no pipeline posts Error
\* or EOS and the listener gets its socket. Builds still throw for the codecs
\* that have no pipeline, which takes a sensor worker through its backoff and
\* into slow-retry mode.
StartingSensorStep(w) ==
    \/ SensorTop(w)
    \/ SensorSlow(w)
    \/ SensorBuild(w)
    \/ SensorPlayOk(w)
    \/ SensorPoll(w, FALSE)
    \/ SensorReread(w)
    \/ SensorTeardown(w)

StartingPanoStep ==
    \/ PanoTop
    \/ PanoBuild
    \/ PanoPublish
    \/ PanoPlayOk
    \/ PanoPoll(FALSE)
    \/ PanoReread
    \/ PanoTeardown
    \/ PanoStop

StartingSelStep ==
    \/ SelStart
    \/ \E b \in SelectInputs : SelRecv(b)
    \/ SelSwitch
    \/ SelLockPipelines
    \/ SelKeyFrame

StartingNext ==
    \/ \E line \in Lines : ControlLine(line)
    \/ ControlEof
    \/ MainStep
    \/ \E w \in Sensors : StartingSensorStep(w)
    \/ StartingPanoStep
    \/ StartingSelStep

\* The scheduler is fair to every thread; a worker that waits for a mutex gets it
\* when the listener, which holds its locks for one datagram only, goes back to
\* recvfrom.
StartingFairness ==
    /\ WF_vars(MainStep)
    /\ \A w \in Sensors : WF_vars(StartingSensorStep(w))
    /\ SF_vars(StartingPanoStep)
    /\ WF_vars(StartingSelStep)

LockingThreads == {"sel", "pano", "sensor0", "sensor1"}
Holder(mutex) == IF mutex = "selector" THEN selector_mutex ELSE pipelines_mutex

\* The lock a thread is about to acquire, "none" if it is not at a lock statement.
Requests(thread) ==
    CASE thread = "sel" ->
             IF sel_pc = "switch" THEN "selector"
             ELSE IF sel_pc = "lockpipelines" THEN "pipelines"
             ELSE "none"
      [] thread = "pano" ->
             IF wpc[PANO] \in {"build", "teardown"} THEN "selector"
             ELSE IF wpc[PANO] \in {"publish", "stop"} THEN "pipelines"
             ELSE "none"
      [] thread = "sensor0" ->
             IF wpc[0] \in {"build", "teardown"} THEN "pipelines" ELSE "none"
      [] OTHER ->
             IF wpc[1] \in {"build", "teardown"} THEN "pipelines" ELSE "none"

----------------------------------------------------------------------------
(* Properties of the telemetry listener over sequences of datagrams *)

\* C34: a ParsedMessage is built for an uncompressed data datagram of type t if and
\* only if a schema datagram for t was received earlier (the registry holds a
\* schema for t when the datagram arrives); a message that exists was built from
\* the datagram handled last, never from an earlier one; and the schema learned
\* for a type never disappears.
C34_BuiltIffSchemaLearnedEarlier ==
    [][/\ \A type \in MessageTypes : registry_[type].has => registry_'[type].has
       /\ parsed'.built =>
             /\ parsed'.type = ros_last'.datagram.type
             /\ parsed'.payload = ros_last'.datagram.payload.doc
       /\ (/\ ros_last' # ros_last
           /\ ros_last'.datagram.header = "ok"
           /\ ~ros_last'.datagram.compressed
           /\ parse(ros_last'.datagram.payload).ok
           /\ ~IsSchemaDocument(ros_last'.datagram.payload))
          => (parsed'.built <=> registry_[ros_last'.datagram.type].has)]_vars

\* C35: get<T>(path) steps into an array only when the array has exactly one
\* element: for a top-level field holding an array of two or more elements a value
\* that is returned is the array itself, never one of its elements; a path
\* component the message does not have, and a value that is not of type T at the
\* final cast, end in an error.
C35_GetStepsIntoSingletonsOnly ==
    (got.called /\ parsed.built /\ Len(got.field) = 1) =>
        LET f == got.field[1]
        IN  /\ ~contains(parsed.data, f) => ~got.ok
            /\ contains(parsed.data, f) =>
                  LET value == at(parsed.data, f)
                  IN  /\ (is_array(value) /\ Len(value.a) >= 2)
                         => (got.ok => got.value = value)
                      /\ (~is_array(value) /\ ~GetAs(got.T, value)) => ~got.ok

----------------------------------------------------------------------------
(* VR_App: configurePipelines and the GLib main loop it runs on the thread pool
   (gstreamer_player.cpp) *)

\* What a call is made with: a mode with two pipelines, a mode with one, and a
\* codec no pipeline is made for (the call throws after the teardown).
LoopConfigs == {"Stereo", "Mono", "VP8"}

\* The prerequisites hold: configurePipelines(threadPool, config) is entered.
CpCall(config) ==
    /\ cp_pc = "idle"
    /\ cp_calls < MaxReconfigurations
    /\ cp_calls' = cp_calls + 1
    /\ cp_config' = config
    /\ cp_pc' = "quit"
    /\ UNCHANGED <<mainLoop_, is_running, mainLoopFuture_, task_pc, pipelineLeft_,
                   pipelineRight_, dispatched>>
    /\ UNCHANGED nonLoopVars

\* The values a read of mainLoop_ can yield on the calling thread: the member is
\* a plain pointer that the task writes without synchronisation, so while the
\* task has written it and has not finished, the read yields the value before
\* the write or the one after it.
VisibleMainLoop ==
    IF task_pc \in {"created", "running", "exited", "unrefd"} THEN {0, mainLoop_}
    ELSE {mainLoop_}

\* if (mainLoop_) g_main_loop_quit(mainLoop_): the flag of the loop is cleared.
CpQuit ==
    /\ cp_pc = "quit"
    /\ \E seen \in VisibleMainLoop :
          is_running' = IF seen # 0 THEN FALSE ELSE is_running
    /\ cp_pc' = "wait"
    /\ UNCHANGED <<mainLoop_, mainLoopFuture_, task_pc, cp_config, pipelineLeft_,
                   pipelineRight_, cp_calls, dispatched>>
    /\ UNCHANGED nonLoopVars

\* The wait on the future left out.
CpWaitSkipped ==
    /\ cp_pc = "wait"
    /\ cp_pc' = "teardown"
    /\ UNCHANGED <<mainLoop_, is_running, mainLoopFuture_, task_pc, cp_config,
                   pipelineLeft_, pipelineRight_, cp_calls, dispatched>>
    /\ UNCHANGED nonLoopVars

\* if (mainLoopFuture_.valid()) mainLoopFuture_.wait(): blocks while the promise
\* of the task is not set.
CpWait ==
    /\ cp_pc = "wait"
    /\ mainLoopFuture_ \in {"invalid", "ready"}
    /\ cp_pc' = "teardown"
    /\ UNCHANGED <<mainLoop_, is_running, mainLoopFuture_, task_pc, cp_config,
                   pipelineLeft_, pipelineRight_, cp_calls, dispatched>>
    /\ UNCHANGED nonLoopVars

\* The pipelines that exist get EOS, are set to Null and unreferenced.
CpTeardown ==
    /\ cp_pc = "teardown"
    /\ pipelineLeft_' = "none"
    /\ pipelineRight_' = "none"
    /\ cp_pc' = "build"
    /\ UNCHANGED <<mainLoop_, is_running, mainLoopFuture_, task_pc, cp_config, cp_calls,
                   dispatched>>
    /\ UNCHANGED nonLoopVars

\* gst_parse_launch per codec and mode, the Playing transitions, the new promise
\* and future, and detach_task; for VP8 and VP9 no pipeline exists and the call
\* throws.
CpBuild ==
    /\ cp_pc = "build"
    /\ IF cp_config = "VP8"
       THEN /\ cp_pc' = "thrown"
            /\ UNCHANGED <<pipelineLeft_, pipelineRight_, mainLoopFuture_, task_pc,
                           dispatched>>
       ELSE /\ pipelineLeft_' = "PLAYING"
            /\ pipelineRight_' = IF cp_config = "Mono" THEN "none" ELSE "PLAYING"
            /\ mainLoopFuture_' = "pending"
            /\ task_pc' = "queued"
            /\ dispatched' = 0
            /\ cp_pc' = "idle"
    /\ UNCHANGED <<mainLoop_, is_running, cp_config, cp_calls>>
    /\ UNCHANGED nonLoopVars

\* The task starts: mainLoop_ = g_main_loop_new(gMainContext_, FALSE).
TaskNew ==
    /\ task_pc = "queued"
    /\ mainLoop_' = cp_calls
    /\ is_running' = FALSE
    /\ task_pc' = "created"
    /\ UNCHANGED <<mainLoopFuture_, cp_pc, cp_config, pipelineLeft_, pipelineRight_,
                   cp_calls, dispatched>>
    /\ UNCHANGED nonLoopVars

\* g_main_loop_run is entered: it sets the loop's flag and iterates while the
\* flag is set.
TaskRun ==
    /\ task_pc = "created"
    /\ is_running' = TRUE
    /\ task_pc' = "running"
    /\ UNCHANGED <<mainLoop_, mainLoopFuture_, cp_pc, cp_config, pipelineLeft_,
                   pipelineRight_, cp_calls, dispatched>>
    /\ UNCHANGED nonLoopVars

\* One iteration of the loop dispatches a bus callback of the pipelines.
LoopDispatch ==
    /\ task_pc = "running"
    /\ is_running
    /\ dispatched < MaxDispatched
    /\ dispatched' = dispatched + 1
    /\ UNCHANGED <<mainLoop_, is_running, mainLoopFuture_, task_pc, cp_pc, cp_config,
                   pipelineLeft_, pipelineRight_, cp_calls>>
    /\ UNCHANGED nonLoopVars

\* The loop finds its flag cleared: g_main_loop_run returns.
LoopExit ==
    /\ task_pc = "running"
    /\ ~is_running
    /\ task_pc' = "exited"
    /\ UNCHANGED <<mainLoop_, is_running, mainLoopFuture_, cp_pc, cp_config,
                   pipelineLeft_, pipelineRight_, cp_calls, dispatched>>
    /\ UNCHANGED nonLoopVars

\* g_main_loop_unref(mainLoop_)
TaskUnref ==
    /\ task_pc = "exited"
    /\ task_pc' = "unrefd"
    /\ UNCHANGED <<mainLoop_, is_running, mainLoopFuture_, cp_pc, cp_config,
                   pipelineLeft_, pipelineRight_, cp_calls, dispatched>>
    /\ UNCHANGED nonLoopVars

\* mainLoop_ = nullptr
TaskNull ==
    /\ task_pc = "unrefd"
    /\ mainLoop_' = 0
    /\ task_pc' = "nulled"
    /\ UNCHANGED <<is_running, mainLoopFuture_, cp_pc, cp_config, pipelineLeft_,
                   pipelineRight_, cp_calls, dispatched>>
    /\ UNCHANGED nonLoopVars

\* loopPromise->set_value(): the task is over.
TaskSetValue ==
    /\ task_pc = "nulled"
    /\ mainLoopFuture_' = "ready"
    /\ task_pc' = "none"
    /\ UNCHANGED <<mainLoop_, is_running, cp_pc, cp_config, pipelineLeft_,
                   pipelineRight_, cp_calls, dispatched>>
    /\ UNCHANGED nonLoopVars

LoopNext ==
    \/ \E config \in LoopConfigs : CpCall(config)
    \/ CpQuit
    \/ CpWait
    \/ CpTeardown
    \/ CpBuild
    \/ TaskNew
    \/ TaskRun
    \/ LoopDispatch
    \/ LoopExit
    \/ TaskUnref
    \/ TaskNull
    \/ TaskSetValue

\* The call and the task are scheduled: a step of either that can be taken is
\* taken; when configurePipelines is called is up to the user.
LoopFairness ==
    /\ WF_vars(CpQuit)
    /\ WF_vars(CpWait)
    /\ WF_vars(CpTeardown)
    /\ WF_vars(CpBuild)
    /\ WF_vars(TaskNew)
    /\ WF_vars(TaskRun)
    /\ WF_vars(LoopExit)
    /\ WF_vars(TaskUnref)
    /\ WF_vars(TaskNull)
    /\ WF_vars(TaskSetValue)

\* C36: in every reconfiguration the dispatch loop has fully exited before a
\* pipeline is set to Null or released: when the teardown is made, no task is
\* queued, creating its loop, running it or leaving it.
C36_LoopExitedBeforeTeardown ==
    [][(cp_pc = "teardown" /\ cp_pc' = "build") => task_pc = "none"]_vars

\* A reconfiguration has released the pipelines of a loop that had dispatched
\* callbacks for them, after the loop's task had finished.
C36_Witness ==
    /\ cp_pc = "build"
    /\ cp_calls >= 2
    /\ dispatched >= 1
    /\ mainLoopFuture_ = "ready"
    /\ pipelineLeft_ = "none"

\* C37: every call of configurePipelines eventually returns (or throws), whatever
\* the timing between the call and the task.
C37_ConfigurePipelinesReturns ==
    (cp_pc \in {"quit", "wait", "teardown", "build"}) ~> (cp_pc \in {"idle", "thrown"})

----------------------------------------------------------------------------
(* Specifications *)

\* No call of CanUpdateDynamically outside the workers.
HsIdle ==
    /\ hs_pc = "idle"
    /\ hs_oldCfg = ZeroConfig
    /\ hs_newCfg = ZeroConfig
    /\ hs_result = FALSE

\* No pipeline with probes.
LogIdle ==
    /\ frameId = 0
    /\ frameIdIncremented = FALSE
    /\ lastCameraFrameTime = 0
    /\ cameraFrameDuration = 0
    /\ timestampsStreaming = <<>>
    /\ now = 1
    /\ passed = [f \in Frames |-> <<>>]
    /\ sent = [f \in Frames |-> <<>>]
    /\ probe_faults = 0

\* No synchronizer.
NtpIdle ==
    /\ ntpServerAddress_ = ""
    /\ fallbackServerAddress_ = ""
    /\ usingFallback_ = FALSE
    /\ smoothedOffsetUs_ = 0
    /\ hasInitialOffset_ = FALSE
    /\ syncHealthy_ = FALSE
    /\ consecutiveSyncFailures_ = 0
    /\ goodSamples = <<>>
    /\ attempt = 0
    /\ cycles = 0
    /\ failing_cycles = 0

\* No line has been read.
CtlIdle ==
    /\ read_lines = <<>>

\* A new CameraStats record, no frame received yet.
StatsIdle ==
    /\ stats = [f \in StatsFields |-> 0]
    /\ history_ = <<>>
    /\ st_pc = "udpsrc_ident"
    /\ st_now = 10
    /\ st_frames = 0

\* No datagram has been received by the telemetry listener.
RosIdle ==
    /\ registry_ = [type \in MessageTypes |-> NoSchema]
    /\ parsed = NoParsedMessage
    /\ got = NoGet
    /\ ros_last = NoDatagram
    /\ ros_pc = "listening"

\* The client has not started its streaming yet.
CliIdle ==
    /\ streamingConfig = StreamingConfig
    /\ cameraServer = "Unknown"
    /\ cli_pc = "created"
    /\ rest_log = <<>>
    /\ rest_srv = NoStream
    /\ accepted = streamingConfig
    /\ camPair = [eye \in Eyes |-> CameraFrame]
    /\ player = NoPipelines
    /\ cli_steps = 0

\* No frame in flight.
FlowIdle ==
    /\ fl_sent = 0
    /\ fl_queue = <<>>
    /\ fl_frame = <<>>

\* No pipelines, no main loop and no task yet.
LoopIdle ==
    /\ mainLoop_ = 0
    /\ is_running = FALSE
    /\ mainLoopFuture_ = "invalid"
    /\ task_pc = "none"
    /\ cp_pc = "idle"
    /\ cp_config = "Stereo"
    /\ pipelineLeft_ = "none"
    /\ pipelineRight_ = "none"
    /\ cp_calls = 0
    /\ dispatched = 0

\* The supervisor.
Init == SrvInit /\ HsIdle /\ LogIdle /\ NtpIdle /\ CtlIdle /\ StatsIdle /\ RosIdle /\ CliIdle /\ FlowIdle /\ LoopIdle
Spec == Init /\ [][SrvNext]_vars
SpecFair == Init /\ [][SrvNext]_vars /\ Fairness

\* The supervisor when pipelines start, with the scheduling of its threads.
SpecStarting == Init /\ [][StartingNext]_vars /\ StartingFairness

\* CanUpdateDynamically, over its arguments.
InitHotSwap == SrvInit /\ HsInit /\ LogIdle /\ NtpIdle /\ CtlIdle /\ StatsIdle /\ RosIdle /\ CliIdle /\ FlowIdle /\ LoopIdle
SpecHotSwap == InitHotSwap /\ [][HsNext]_vars

\* The timing probes of one pipeline.
InitLog == SrvInit /\ HsIdle /\ LogInit /\ NtpIdle /\ CtlIdle /\ StatsIdle /\ RosIdle /\ CliIdle /\ FlowIdle /\ LoopIdle
SpecLog == InitLog /\ [][LogNext]_vars

\* The command reader alone, with the lines it has read.
SpecControl == Init /\ [][ControlNext]_vars

\* The client's streaming control: settings panel, REST calls, receive pipelines.
CliInit ==
    /\ streamingConfig \in LoadedConfigs
    /\ cameraServer = "Unknown"
    /\ cli_pc = "created"
    /\ rest_log = <<>>
    /\ rest_srv = NoStream
    /\ accepted = streamingConfig
    /\ camPair = [eye \in Eyes |-> CameraFrame]
    /\ player = NoPipelines
    /\ cli_steps = 0
InitClient == SrvInit /\ HsIdle /\ LogIdle /\ NtpIdle /\ CtlIdle /\ StatsIdle /\ RosIdle /\ CliInit /\ FlowIdle /\ LoopIdle
SpecClient == InitClient /\ [][ClientNext]_vars

\* The telemetry listener and the get calls on the messages it builds.
SpecRos == Init /\ [][RosNext]_vars

\* The latency probes of one client pipeline and its CameraStats record.
SpecStats == Init /\ [][StatsNext]_vars

\* The probes of one receive pipeline with frames in flight.
SpecFlow == Init /\ [][FlowNext]_vars

\* configurePipelines and the main loop task; with the scheduling of both.
SpecLoop == Init /\ [][LoopNext]_vars
SpecLoopFair == Init /\ [][LoopNext]_vars /\ LoopFairness

\* The NTP synchronizer.
InitNtp == SrvInit /\ HsIdle /\ LogIdle /\ NtpInit /\ CtlIdle /\ StatsIdle /\ RosIdle /\ CliIdle /\ FlowIdle /\ LoopIdle
SpecNtp == InitNtp /\ [][NtpNext]_vars

=============================================================================
